---- MODULE Spec2Model ----
(***************************************************************************)
(* Model of the rag-foundation backend core: the document ingestion job    *)
(* (app/services/ingestion.py), the watchdog and admin sweeps              *)
(* (app/worker.py, app/routes/admin.py), the upload and op-status routes   *)
(* (app/routes/uploads.py) and the chat stream generator                   *)
(* (app/routes/chat.py).                                                   *)
(*                                                                         *)
(* Granularity.  A database transaction that contains no external call is  *)
(* one atomic step (the guarded start of the job under its row lock, the   *)
(* sweeps).  The job and the op-status route are split at their remote     *)
(* calls: other actors run between the steps, and the ORM writes only the  *)
(* attributes the step has set (a stale object overwrites the row).        *)
(***************************************************************************)
EXTENDS Integers, Sequences, FiniteSets, TLC

\* ------------------------------------------------------------------ bounds
NDocs == 1
NWorkers == 2
MaxDeliveries == 2
MaxTicks == 2
MaxFaults == 1
\* chat streams, and text chunks an upstream produces for one stream
NStreams == 2
MaxChunks == 2
\* settings.MAX_CONCURRENT_STREAMS (50 by default), scaled down so that the
\* streams contend for it
MAX_CONCURRENT_STREAMS == 1
\* queue.Queue(maxsize=20) of the stream thread, scaled down so that it fills,
\* and the chunks the upstream gives to one attempt
CHUNK_QUEUE_MAXSIZE == 2
MaxUpstreamChunks == 3
\* The monotonic clock of a stream stops here, in tenths of a second
MaxClock == 6

\* ------------------------------------------------------- program constants
WATCHDOG_TTL_MINUTES == 60
ERROR_MAX_LEN == 500
STORE_USER == 1
GEMINI_STREAM_RETRY_ATTEMPTS == 2
\* settings.BUDGET_HOLD_USD (0.05), in micro-USD
BUDGET_HOLD_USD == 50000
\* settings.GEMINI_INGESTION_TIMEOUT_S, in seconds
GEMINI_INGESTION_TIMEOUT_S == 180
\* Clock units a second: the waits 2, 3, 4.5, 6.75, 10.125, 15.1875 are whole
TimeUnit == 10000
\* wait = 2.0 and wait_max = 20.0 of _wait_for_operation_completion, in clock units
WAIT_INITIAL == 2 * TimeUnit
WAIT_MAX == 20 * TimeUnit
\* Prices in micro-USD per million tokens
PRICE_PER_MTOK_INPUT == 300000
PRICE_PER_MTOK_OUTPUT == 2500000
PRICE_PER_MTOK_INDEX == 1500
MTOK == 1000000

DocIds == 1..NDocs
Workers == 1..NWorkers
Streams == 1..NStreams

\* None for an operation handle, a file id, a user id
NoId == 0
\* None for last_error
NoErr == << >>

PENDING == "PENDING"
RUNNING == "RUNNING"
DONE == "DONE"
ERROR == "ERROR"
DocumentStatus == {PENDING, RUNNING, DONE, ERROR}

\* Seconds in the watchdog TTL
TtlSeconds(minutes) == minutes * 60

\* The instants the clock is read at: 0, then the watchdog TTL later, then a
\* second at a time, so that the TTL boundary is met exactly and then passed by
\* one second.
Instant(k) == IF k = 0 THEN 0 ELSE TtlSeconds(WATCHDOG_TTL_MINUTES) + (k - 1)
\* ttl_minutes of an admin reset request (an int, not validated)
AdminTtls == {0, WATCHDOG_TTL_MINUTES}
\* user_id of an admin reset request: none, the store's owner, someone else
AdminUserIds == {NoId, STORE_USER, STORE_USER + 1}
\* size_bytes of an uploaded file
DocSizes == {1000}

\* ---------------------------------------------------------- error strings
\* Strings are sequences of one-character strings.
MsgStoreMissing == <<"S","t","o","r","e"," ","m","i","s","s","i","n","g">>
MsgNoOpName == <<"n","o"," ","o","p"," ","n","a","m","e">>
MsgTimedOut == <<"t","i","m","e","d"," ","o","u","t">>
MsgOpFailed == <<"o","p"," ","e","r","r","o","r">>
MsgUpstream == <<"5","0","3">>
\* FileNotFoundError for the temp file under an application directory
MsgNoFile == <<"N","o"," ","/","s","r","v","/","a","p","p","/","u","p","/","f",".","p","d","f">>
MsgDbError == <<"d","b"," ","d","o","w","n">>
MsgCostError == <<"c","o","s","t">>

PathSegChars == {"a","b","c","d","e","f","g","h","i","j","k","l","m","n","o","p","q","r","s","t","u","v","w","x","y","z",
                 "0","1","2","3","4","5","6","7","8","9",".","_","-",
                 "A","B","C","D","E","F","G","H","I","J","K","L","M","N","O","P","Q","R","S","T","U","V","W","X","Y","Z"}
PathDirs == {<<"t","m","p">>, <<"v","a","r">>, <<"a","p","p">>}
PathMark == <<"[","p","a","t","h","]">>

Min(a, b) == IF a < b THEN a ELSE b
Max(a, b) == IF a > b THEN a ELSE b

\* End (exclusive) of the longest run of characters from/without a class
\* starting at position i of s.
RunEnd(s, i, Ok(_)) ==
    LET bad == {j \in i..Len(s) : ~Ok(s[j])}
    IN IF bad = {} THEN Len(s) + 1 ELSE CHOOSE j \in bad : \A k \in bad : j <= k

InSeg(c) == c \in PathSegChars
\* [^\\s] in the raw pattern: any character but a backslash and the letter s
NotBackslashNorS(c) == c \notin {"\\", "s"}

\* Where a match of /[A-Za-z0-9._-]+/(tmp|var|app)[^\\s]* starting at i ends
\* (exclusive), or 0 when there is no match at i.
PathMatchEnd(s, i) ==
    IF i > Len(s) \/ s[i] # "/" THEN 0
    ELSE LET e == RunEnd(s, i + 1, InSeg)
         IN IF e = i + 1 \/ e + 3 > Len(s) \/ s[e] # "/" THEN 0
            ELSE IF SubSeq(s, e + 1, e + 3) \notin PathDirs THEN 0
            ELSE RunEnd(s, e + 4, NotBackslashNorS)

\* re.sub: leftmost matches, left to right, each replaced by "[path]"
RECURSIVE RedactFrom(_, _)
RedactFrom(s, i) ==
    IF i > Len(s) THEN << >>
    ELSE LET e == PathMatchEnd(s, i)
         IN IF e = 0 THEN <<s[i]>> \o RedactFrom(s, i + 1)
            ELSE PathMark \o RedactFrom(s, e)

\* _sanitize_error: redact paths, then cap the length
SanitizeError(msg) ==
    LET r == RedactFrom(msg, 1)
    IN SubSeq(r, 1, Min(Len(r), ERROR_MAX_LEN))

\* --------------------------------------------------------------- keepalive
\* settings.STREAM_KEEPALIVE_SECS (10.0), in tenths of a second
STREAM_KEEPALIVE_SECS == 100
\* chunk_queue.get(timeout=0.1), in tenths of a second
QUEUE_GET_TIMEOUT == 1
\* keepalive_interval is None
NoInterval == 0

\* An interval taken as it is configured
IntervalAsConfigured(secs) == secs

\* Line 496: the setting if it is above 0, else None
KeepaliveInterval(secs) == IF secs > 0 THEN secs ELSE NoInterval

\* ------------------------------------------------------------------ state
VARIABLES
    docs,          \* the documents table: id -> row
    storeDeleted,  \* the store's deleted_at is set
    now,           \* the wall clock, in seconds
    ticks,         \* how often the clock was advanced
    tmpFile,       \* the local temp file of a document exists
    queued,        \* an index_document_job message exists for the document
    runs,          \* job runs started per document
    job,           \* per worker: the run of run_ingestion_sync in progress
    uploadCalls,   \* calls of rag.upload_file per document
    remoteFiles,   \* per document: the file ids that exist remotely
    indexLogs,     \* QueryLog rows with model "INDEX" per document
    osr,           \* op-status requests between their read and their write
    uploading,     \* upload requests between the row's commit and the enqueue
    faults,        \* injected database/telemetry failures so far
    cleanup,       \* per document: the background task _delete_remote_document
    sem,           \* _stream_semaphore: the permits left
    gen,           \* per chat request: the generator's locals, frames and position
    limit,         \* Budget.monthly_limit_usd of the user, in micro-USD, or NoBudget
    spend,         \* mtd_spend of the user: the sum of cost_usd of the QueryLog rows
    verdict,       \* the last budget decision taken for a request of the user
    calc,          \* the last evaluation of a function of the cost engine
    pipe           \* one attempt of a stream: the producer thread, its queue, the consumer

ingestVars == <<docs, storeDeleted, now, ticks, tmpFile, queued, runs, job,
                uploadCalls, remoteFiles, indexLogs, osr, uploading, faults, cleanup>>
budgetVars == <<limit, spend, verdict, calc, pipe>>
chatVars == <<sem, gen, budgetVars>>
vars == <<ingestVars, chatVars>>

\* A row; prev and by are history: the status before the last status write, and
\* the code that made that write
NoDoc == [exists |-> FALSE, status |-> PENDING, op |-> NoId, fid |-> NoId,
          err |-> NoErr, ts |-> 0, created |-> 0, deleted |-> FALSE, size |-> 0,
          prev |-> "NONE", by |-> "none"]

IdleJob == [pc |-> "idle", doc |-> 0, vop |-> NoId, vfid |-> NoId,
            op_name |-> NoId, uploaded_file_id |-> NoId,
            rag |-> FALSE,
            exc |-> NoErr, uploaded |-> FALSE, pollFail |-> "none",
            pendFid |-> NoId, costFailed |-> FALSE,
            delArg |-> NoId, outcome |-> "none", raised |-> FALSE,
            elapsed |-> 0, wait |-> WAIT_INITIAL, polls |-> 0,
            op_status_raised |-> FALSE, result_file_id |-> NoId,
            db_closed |-> 0]

\* remaining_budget_usd is None; the user has no Budget row
NoBudget == -1

\* An attempt of the retry loop as it starts (lines 546-567): an empty queue,
\* the stop flag clear, the thread about to ask the upstream for a chunk, the
\* consumer in its loop.  taken counts the chunks the upstream gave, deltas the
\* text-delta frames sent, deltas_at_disconnect those sent when the client left.
NewPipe == [queue |-> << >>, stop_event |-> FALSE, thread |-> "next", taken |-> 0,
            consumer |-> "get", cause |-> "none", disconnected |-> FALSE,
            deltas |-> 0, deltas_at_disconnect |-> 0, error_sent |-> FALSE,
            secs |-> STREAM_KEEPALIVE_SECS,
            keepalive_interval |-> KeepaliveInterval(STREAM_KEEPALIVE_SECS),
            clock |-> 0, last_send |-> 0, keepalives |-> 0]

\* No function of the cost engine was evaluated yet
NoCalc == [fn |-> "none"]

\* No budget decision was taken yet
NoVerdict == [site |-> "none", limit |-> NoBudget, spend |-> 0, cost |-> 0, rejected |-> FALSE]

\* A chat request as it arrives.  http and detail are the response of a request
\* rejected before the stream; store, seen, cause, asked, released, slept, raised,
\* exc_text, rows and saved are history: what the named store id is, the text
\* lengths of the chunks consumed, what ended the generation, calls of
\* ask_stream, releases of the semaphore, the delays slept before retries, an
\* exception that left the generator, the text of the upstream exception, the
\* QueryLog rows the request inserted, the assistant message persisted; usage is
\* the usage metadata the final response carried (no counts: none).
NoUsageMetadata == [prompt_token_count |-> 0, candidates_token_count |-> 0]
NewGen == [pc |-> "request", usage |-> NoUsageMetadata, http |-> 200, detail |-> "", store |-> "none",
           exc_text |-> "", rows |-> << >>, saved |-> FALSE,
           frames |-> << >>, sem_acquired |-> FALSE, retry_count |-> 0,
           stream_failed |-> FALSE, budget_exhausted |-> FALSE, error_sent |-> FALSE,
           last_error_code |-> "None", completion_tokens_used |-> 0,
           remaining_budget_usd |-> NoBudget, final_resp |-> FALSE, text_parts |-> 0,
           seen |-> << >>, cause |-> "none",
           asked |-> 0, released |-> 0, slept |-> << >>, raised |-> FALSE]

\* The state of everything but the user's budget, the cost engine's call and
\* the stream's thread and queue
InitButPipe ==
    /\ sem = MAX_CONCURRENT_STREAMS
    /\ gen = [s \in Streams |-> NewGen]
    /\ verdict = NoVerdict
    /\ docs = [d \in DocIds |-> NoDoc]
    /\ storeDeleted = FALSE
    /\ now = 0
    /\ ticks = 0
    /\ tmpFile = [d \in DocIds |-> FALSE]
    /\ queued = [d \in DocIds |-> FALSE]
    /\ runs = [d \in DocIds |-> 0]
    /\ job = [w \in Workers |-> IdleJob]
    /\ uploadCalls = [d \in DocIds |-> 0]
    /\ remoteFiles = [d \in DocIds |-> {}]
    /\ indexLogs = [d \in DocIds |-> << >>]
    /\ osr = [d \in DocIds |-> FALSE]
    /\ uploading = [d \in DocIds |-> FALSE]
    /\ faults = 0
    /\ cleanup = [d \in DocIds |-> "none"]

\* The state of everything but the user's budget and the cost engine's call
InitBut == InitButPipe /\ pipe = NewPipe

\* A user without a Budget row and without QueryLog rows
Init ==
    /\ InitBut
    /\ limit = NoBudget
    /\ spend = 0
    /\ calc = NoCalc

\* ------------------------------------------------------------ Document
\* Document.set_status: the status and its timestamp
SetStatus(doc, st, who) == [doc EXCEPT !.status = st, !.ts = now, !.prev = doc.status, !.by = who]
\* Document.touch_status
TouchStatus(doc) == [doc EXCEPT !.ts = now]

\* ------------------------------------------------------------- the clock
Tick ==
    /\ ticks < MaxTicks
    /\ now' = Instant(ticks + 1)
    /\ ticks' = ticks + 1
    /\ UNCHANGED chatVars
    /\ UNCHANGED <<docs, storeDeleted, tmpFile, queued, runs, job, uploadCalls,
                   remoteFiles, indexLogs, osr, uploading, faults, cleanup>>

\* ------------------------------------------------------------ Cost engine
\* A rounding without the floor for tiny costs
QuantizeToZero(num, den) == (2 * num + den) \div (2 * den)

\* _quantize of num/den micro-USD: round half up to a whole micro-USD, and a
\* strictly positive value never becomes 0
Quantize(num, den) ==
    LET q == (2 * num + den) \div (2 * den)
    IN IF num > 0 /\ q = 0 THEN 1 ELSE q

\* Greatest common divisor
RECURSIVE Gcd(_, _)
Gcd(a, b) == IF b = 0 THEN a ELSE Gcd(b, a % b)

\* A cost whose ties are rounded down
TokenCostHalfDown(tokens, price) ==
    LET q == (2 * tokens * price + MTOK - 1) \div (2 * MTOK)
    IN IF tokens * price > 0 /\ q = 0 THEN 1 ELSE q

\* _quantize((Decimal(tokens) / MTOK) * price), in micro-USD: the fraction
\* tokens * price / MTOK in lowest terms of price / MTOK, then quantized
TokenCost(tokens, price) ==
    LET g == Gcd(price, MTOK)
    IN Quantize(tokens * (price \div g), MTOK \div g)

\* estimate_tokens_from_bytes without a MIME type: 4 bytes per token
EstimateTokensFromBytes(n_bytes) == IF n_bytes <= 0 THEN 0 ELSE Max(0, n_bytes \div 4)

\* calc_index_cost, in micro-USD
CalcIndexCost(tokens) == TokenCost(Max(tokens, 0), PRICE_PER_MTOK_INDEX)

\* ------------------------------------------------- _resolve_model_rates
\* Names are sequences of characters
GeminiDash == <<"g", "e", "m", "i", "n", "i", "-">>
Pro == <<"p", "r", "o">>
Dash002 == <<"-", "0", "0", "2">>
\* The table keys "default", "gemini-2.5-pro", "gemini-1.5-", "gemini-1.5-pro"
DefaultKey == <<"d", "e", "f", "a", "u", "l", "t">>
Gemini25Pro == GeminiDash \o <<"2", ".", "5", "-">> \o Pro
Gemini15 == GeminiDash \o <<"1", ".", "5", "-">>
Gemini15Pro == Gemini15 \o Pro

\* str.startswith
StartsWith(str, k) == Len(k) <= Len(str) /\ SubSeq(str, 1, Len(k)) = k

\* str.strip
RECURSIVE Strip(_)
Strip(str) ==
    IF str = << >> THEN str
    ELSE IF Head(str) = " " THEN Strip(Tail(str))
    ELSE IF str[Len(str)] = " " THEN Strip(SubSeq(str, 1, Len(str) - 1))
    ELSE str

\* The rate keys of an entry of MODEL_PRICING
RateKeys == {"input_price", "output_price", "index_price"}
\* price_fields: the setting behind a rate key
SettingField(rate_key) ==
    CASE rate_key = "input_price" -> "PRICE_PER_MTOK_INPUT"
      [] rate_key = "output_price" -> "PRICE_PER_MTOK_OUTPUT"
      [] rate_key = "index_price" -> "PRICE_PER_MTOK_INDEX"

\* No key of the table was chosen
NoKey == << >>
NoRates == [x \in {} |-> 0]

\* The keys of the table in iteration order
Keys(mp) == {mp[i].k : i \in 1..Len(mp)}
\* mp.get(key) or {}
Get(mp, key) ==
    IF key \in Keys(mp) THEN mp[CHOOSE i \in 1..Len(mp) : mp[i].k = key].v
    ELSE NoRates

\* A loop that keeps the first key that is a prefix
FirstPrefix(model_key, mp, i, best_key) ==
    LET P == {j \in i..Len(mp) : mp[j].k # DefaultKey /\ StartsWith(model_key, mp[j].k)}
    IN IF best_key # NoKey \/ P = {} THEN best_key
       ELSE mp[CHOOSE j \in P : \A h \in P : j <= h].k

\* _resolve_model_rates, lines 65-72: the loop over mp.items() from its i-th
\* entry on, with the best key found so far
RECURSIVE BestKey(_, _, _, _)
BestKey(model_key, mp, i, best_key) ==
    IF i > Len(mp) THEN best_key
    ELSE LET k == mp[i].k
         IN IF k = DefaultKey THEN BestKey(model_key, mp, i + 1, best_key)
            ELSE IF StartsWith(model_key, k) /\ (best_key = NoKey \/ Len(k) > Len(best_key))
            THEN BestKey(model_key, mp, i + 1, k)
            ELSE BestKey(model_key, mp, i + 1, best_key)

\* _resolve_model_rates, lines 57-73: the key whose entry becomes rates (NoKey:
\* rates stays empty)
MatchedKey(model, mp) ==
    LET model_key == Strip(model)
    IN IF model_key # << >> /\ model_key \in Keys(mp) THEN model_key
       ELSE IF model_key # << >> THEN BestKey(model_key, mp, 1, NoKey)
       ELSE NoKey

\* _explicit_override: the setting is in the environment, by its name or by its
\* _FILE variant (env holds the names present)
ExplicitOverride(env_key, env) ==
    env_key \in env \/ (env_key \o "_FILE") \in env

\* _pick
Pick(rate_key, rates, default_rates, settings, env) ==
    IF rate_key \in DOMAIN rates THEN rates[rate_key]
    ELSE IF rate_key \in DOMAIN default_rates /\ ~ExplicitOverride(SettingField(rate_key), env)
    THEN default_rates[rate_key]
    ELSE settings[SettingField(rate_key)]

\* _resolve_model_rates(model) under a pricing table, the settings and the
\* environment
ResolveModelRates(model, mp, settings, env) ==
    LET key == MatchedKey(model, mp)
        rates == IF key = NoKey THEN NoRates ELSE Get(mp, key)
        default_rates == Get(mp, DefaultKey)
    IN [r \in RateKeys |-> Pick(r, rates, default_rates, settings, env)]

\* calc_query_cost at the given rates: QueryCostResult, in micro-USD
QueryCostResult(prompt_tokens, completion_tokens, rates) ==
    LET prompt_cost == TokenCost(Max(prompt_tokens, 0), rates["input_price"])
        completion_cost == TokenCost(Max(completion_tokens, 0), rates["output_price"])
    IN [prompt_cost_usd |-> prompt_cost, completion_cost_usd |-> completion_cost,
        total_cost_usd |-> Quantize(prompt_cost + completion_cost, 1)]

\* ------------------------------------------------------------ budgets
\* A comparison that rejects the request landing exactly on the limit
WouldExceedAtLimit(lim, sp, add_cost) == lim # NoBudget /\ sp + add_cost >= lim

\* would_exceed_budget: no Budget row, or mtd_spend + add_cost > limit
WouldExceedBudget(lim, sp, add_cost) == lim # NoBudget /\ sp + add_cost > lim

\* upload, lines 209-225: the index cost of the file is checked when positive
UploadBudgetRejects(lim, sp, size) ==
    LET idx_cost == CalcIndexCost(EstimateTokensFromBytes(size))
    IN idx_cost > 0 /\ WouldExceedBudget(lim, sp, idx_cost)

\* ------------------------------------------------- run_ingestion_sync
\* A done check that never holds
NeverAlreadyDone(doc) == FALSE
\* A skip that leaves the DONE documents out
SkipRunningOnly(doc) == doc.op # NoId /\ doc.status = RUNNING

\* A running check that never holds
NeverAlreadyRunning(doc) == FALSE

\* The guard clauses, in the order of the code
DocMissingOrDeleted(doc) == ~doc.exists \/ doc.deleted
StoreMissingOrDeleted == storeDeleted
AlreadyDone(doc) == doc.status = DONE /\ doc.op = NoId
SkipExistingOperation(doc) == doc.op # NoId /\ doc.status \in {RUNNING, DONE}
AlreadyRunning(doc) == doc.status = RUNNING

\* What the guarded start decides for a row: the outcome and the row committed
StartOutcome(doc) ==
    IF DocMissingOrDeleted(doc) THEN "skip_deleted"
    ELSE IF StoreMissingOrDeleted THEN "store_missing"
    ELSE IF AlreadyDone(doc) THEN "already_done"
    ELSE IF SkipExistingOperation(doc) THEN "skip_existing_operation"
    ELSE IF AlreadyRunning(doc) THEN "skip_already_running"
    ELSE "running"

StartRow(doc) ==
    LET o == StartOutcome(doc)
    IN IF o = "store_missing" THEN SetStatus([doc EXCEPT !.err = MsgStoreMissing], ERROR, "store_guard")
       ELSE IF o = "skip_existing_operation" THEN TouchStatus(doc)
       ELSE IF o = "running" THEN SetStatus([doc EXCEPT !.err = NoErr], RUNNING, "job_start")
       ELSE doc

\* An end of the run that leaves its session open
EndedLeavingSession(j, outcome) ==
    [j EXCEPT !.pc = "ended", !.outcome = outcome, !.vop = NoId,
              !.vfid = NoId, !.op_name = NoId, !.rag = FALSE,
              !.elapsed = 0, !.wait = WAIT_INITIAL, !.polls = 0,
              !.op_status_raised = FALSE, !.result_file_id = NoId]

\* finally: _cleanup_temp_file(local_path); db.close().  The locals go; what the
\* run did stays as its record; db_closed counts the calls of db.close().
Ended(j, outcome) == [j EXCEPT !.pc = "ended", !.outcome = outcome, !.vop = NoId,
                               !.vfid = NoId, !.op_name = NoId, !.rag = FALSE,
                               !.elapsed = 0, !.wait = WAIT_INITIAL, !.polls = 0,
                               !.op_status_raised = FALSE, !.result_file_id = NoId,
                               !.db_closed = @ + 1]

CanStart(w, d) ==
    /\ job[w].pc \in {"idle", "ended"}
    /\ queued[d]
    /\ runs[d] < MaxDeliveries

\* Lines 163-212: load the row FOR UPDATE, the guards, RUNNING committed
RunIngestion_Start(w, d) ==
    /\ CanStart(w, d)
    /\ LET doc == docs[d]
           o == StartOutcome(doc)
           j0 == [IdleJob EXCEPT !.doc = d]
       IN /\ docs' = [docs EXCEPT ![d] = StartRow(doc)]
          /\ IF o = "running"
             THEN /\ job' = [job EXCEPT ![w] = [j0 EXCEPT !.pc = "upload", !.vop = doc.op,
                                                          !.vfid = doc.fid, !.rag = TRUE]]
                  /\ tmpFile' = tmpFile
             ELSE /\ job' = [job EXCEPT ![w] = Ended(j0, o)]
                  /\ tmpFile' = [tmpFile EXCEPT ![d] = FALSE]
    /\ runs' = [runs EXCEPT ![d] = @ + 1]
    /\ UNCHANGED chatVars
    /\ UNCHANGED <<storeDeleted, now, ticks, queued, uploadCalls, remoteFiles,
                   indexLogs, osr, uploading, faults, cleanup>>

\* What rag.upload_file answers: it raises, or returns the operation name with
\* the file id, or without it (then one op_status poll may recover it), or the
\* file id without an operation name.
UploadAnswers == {"raise", "ok_with_file_id", "ok_recovered_file_id", "ok_no_file_id",
                  "ok_no_operation_name"}

\* upload_result.file_id of an upload whose remote file is newId
ResultFileId(answer, newId) ==
    IF answer \in {"ok_with_file_id", "ok_no_operation_name"} THEN newId ELSE NoId

\* The file id the job learns from an upload whose remote file is newId
LearnedFileId(answer, vfid, newId) ==
    IF answer \in {"ok_with_file_id", "ok_no_operation_name"}
    THEN (IF vfid = NoId THEN newId ELSE NoId)
    ELSE IF answer = "ok_recovered_file_id" THEN newId
    ELSE NoId

\* A view of the row that misses its handle
HandleUnseen(j) == [j EXCEPT !.vop = NoId, !.vfid = docs[j.doc].fid]

\* Lines 214-223: the commit of RUNNING expired the row's attributes
\* (expire_on_commit), so the next read of the document loads the row as it is
\* then; op_name and gemini_file_id are tested on that view
Refreshed(j) == [j EXCEPT !.vop = docs[j.doc].op, !.vfid = docs[j.doc].fid]

\* Lines 214-269: the upload step and the commit of the handle and file id
RunIngestion_Upload(w) ==
    /\ job[w].pc = "upload"
    /\ LET j == Refreshed(job[w])
           d == j.doc
       IN IF j.vop # NoId
          THEN \* else: op_name = document.op_name
               /\ job' = [job EXCEPT ![w] = [j EXCEPT !.pc = "poll", !.op_name = j.vop]]
               /\ UNCHANGED <<docs, uploadCalls, remoteFiles>>
          ELSE \E answer \in UploadAnswers :
               /\ (~tmpFile[d]) => (answer = "raise")
               /\ uploadCalls' = [uploadCalls EXCEPT ![d] = @ + 1]
               /\ IF answer = "raise"
                  THEN /\ job' = [job EXCEPT ![w] = [j EXCEPT !.pc = "handler", !.uploaded = TRUE,
                                      !.exc = IF tmpFile[d] THEN MsgUpstream ELSE MsgNoFile]]
                       /\ UNCHANGED <<docs, remoteFiles>>
                  ELSE LET newId == uploadCalls[d] + 1
                           fid == LearnedFileId(answer, j.vfid, newId)
                       IN /\ remoteFiles' = [remoteFiles EXCEPT ![d] = @ \cup {newId}]
                          /\ IF answer = "ok_no_operation_name"
                             THEN \* raise RuntimeError: the file id is set but not committed
                                  /\ job' = [job EXCEPT ![w] = [j EXCEPT !.pc = "handler",
                                                 !.uploaded = TRUE, !.uploaded_file_id = fid,
                                                 !.pendFid = fid, !.exc = MsgNoOpName]]
                                  /\ docs' = docs
                             ELSE /\ docs' = [docs EXCEPT ![d] = [@ EXCEPT !.op = newId,
                                                  !.fid = IF fid # NoId THEN fid ELSE @]]
                                  /\ job' = [job EXCEPT ![w] = [j EXCEPT !.pc = "poll",
                                                 !.uploaded = TRUE, !.op_name = newId,
                                                 !.uploaded_file_id = fid,
                                                 !.result_file_id =
                                                     ResultFileId(answer, newId)]]
    /\ UNCHANGED chatVars
    /\ UNCHANGED <<storeDeleted, now, ticks, tmpFile, queued, runs, indexLogs, osr,
                   uploading, faults, cleanup>>

\* What one iteration of _wait_for_operation_completion meets
PollAnswers == {"pending", "exception", "error", "done", "timeout"}

\* A loop that goes on only while the operation is pending
SleepsOnPendingOnly(answer) == answer = "pending"

\* Lines 118-129 and 136-138: op_status raised (except ... continue), or it
\* answered without error and without done: sleep, back off, next iteration
SleepsAndPollsAgain(answer) == answer \in {"pending", "exception"}

\* What the except and else clauses of lines 273-297 set on the row; text is
\* str(exc) of the TimeoutError
PollRow(doc, answer, text) ==
    IF answer = "done" THEN SetStatus([doc EXCEPT !.err = NoErr], DONE, "job_poll")
    ELSE IF answer = "error" THEN SetStatus([doc EXCEPT !.err = SanitizeError(MsgOpFailed)], ERROR, "job_poll")
    ELSE IF answer = "timeout" THEN SetStatus([doc EXCEPT !.err = SanitizeError(text)], ERROR, "job_poll")
    ELSE doc

\* One iteration of the poll loop with its answer, and what follows the loop
\* when it ends (lines 271-298): DONE or ERROR committed
PollIteration(w, answer, text, j) ==
    LET d == j.doc
    IN /\ docs' = [docs EXCEPT ![d] = PollRow(@, answer, text)]
       /\ IF SleepsAndPollsAgain(answer)
          THEN /\ job' = [job EXCEPT ![w] = [j EXCEPT !.pc = "polling"]]
               /\ tmpFile' = tmpFile
          ELSE IF answer = "done"
          THEN /\ job' = [job EXCEPT ![w] = [j EXCEPT !.pc = "cost"]]
               /\ tmpFile' = tmpFile
          ELSE /\ job' = [job EXCEPT ![w] = Ended([j EXCEPT !.pollFail = answer], "poll_failed")]
               /\ tmpFile' = [tmpFile EXCEPT ![d] = FALSE]
       /\ UNCHANGED chatVars
       /\ UNCHANGED <<storeDeleted, now, ticks, queued, runs, uploadCalls, remoteFiles,
                      indexLogs, osr, uploading, faults, cleanup>>

\* Lines 271-298: poll to completion, with the durations of the sleeps left
\* open.  A poll that is pending or raises sleeps and polls again; the timeout
\* needs time to have passed, so it is not met by the first iteration.
RunIngestion_Poll(w) ==
    /\ job[w].pc \in {"poll", "polling"}
    /\ \E answer \in PollAnswers :
          /\ (answer = "timeout") => (job[w].pc = "polling")
          /\ PollIteration(w, answer, MsgTimedOut, job[w])

\* ------------------------------------- _wait_for_operation_completion, timed
\* The decimal digits of a natural number
RECURSIVE Digits(_)
Digits(n) ==
    LET c == <<"0","1","2","3","4","5","6","7","8","9">>[(n % 10) + 1]
    IN IF n < 10 THEN <<c>> ELSE Append(Digits(n \div 10), c)

\* f"Ingestion timed out after {elapsed:.1f}s", elapsed in clock units
TimeoutMessage(elapsed) ==
    LET tenths == (10 * elapsed + (TimeUnit \div 2)) \div TimeUnit
    IN <<"I","n","g","e","s","t","i","o","n"," ">> \o MsgTimedOut
       \o <<" ","a","f","t","e","r"," ">> \o Digits(tenths \div 10) \o <<".">>
       \o Digits(tenths % 10) \o <<"s">>

\* A comparison turned around
TimedOutBelow(elapsed) == elapsed < GEMINI_INGESTION_TIMEOUT_S * TimeUnit

\* elapsed > settings.GEMINI_INGESTION_TIMEOUT_S
TimedOut(elapsed) == elapsed > GEMINI_INGESTION_TIMEOUT_S * TimeUnit

\* random.uniform(0, 1.5): its two ends
Jitters == {0, (3 * TimeUnit) \div 2}

\* wait = min(wait * 1.5, wait_max)
NextWait(wait) == Min((wait * 3) \div 2, WAIT_MAX)

\* One iteration of the loop of _wait_for_operation_completion with the clock
\* of the loop: the timeout check, op_status, the sleep and the backoff
WaitForOperation_Iterate(w) ==
    /\ job[w].pc \in {"poll", "polling"}
    /\ LET j == job[w]
       IN IF TimedOut(j.elapsed)
          THEN PollIteration(w, "timeout", TimeoutMessage(j.elapsed), j)
          ELSE \E answer \in PollAnswers \ {"timeout"} :
                  IF SleepsAndPollsAgain(answer)
                  THEN \E jitter \in Jitters :
                          PollIteration(w, answer, << >>,
                                        [j EXCEPT !.polls = @ + 1,
                                                  !.elapsed = @ + j.wait + jitter,
                                                  !.wait = NextWait(@),
                                                  !.op_status_raised =
                                                      @ \/ answer = "exception"])
                  ELSE PollIteration(w, answer, << >>, [j EXCEPT !.polls = @ + 1])

\* The QueryLog row of _log_index_cost, for the owner of the store
IndexRow(idx_tokens, idx_cost) ==
    [user_id |-> STORE_USER, prompt_tokens |-> idx_tokens, cost_usd |-> idx_cost,
     model |-> "INDEX"]

\* Lines 308-309 and _log_index_cost: one INDEX row unless the cost is 0
RunIngestion_LogIndexCost(w) ==
    /\ job[w].pc = "cost"
    /\ LET j == job[w]
           d == j.doc
           idx_cost == CalcIndexCost(EstimateTokensFromBytes(docs[d].size))
           idx_tokens == EstimateTokensFromBytes(docs[d].size)
       IN /\ indexLogs' = [indexLogs EXCEPT ![d] =
                 IF idx_cost <= 0 THEN @ ELSE Append(@, IndexRow(idx_tokens, idx_cost))]
          /\ spend' = IF idx_cost <= 0 THEN spend ELSE spend + idx_cost
          /\ job' = [job EXCEPT ![w] = Ended(j, "done")]
          /\ tmpFile' = [tmpFile EXCEPT ![d] = FALSE]
    /\ UNCHANGED <<sem, gen, limit, verdict, calc, pipe>>
    /\ UNCHANGED <<docs, storeDeleted, now, ticks, queued, runs, uploadCalls,
                   remoteFiles, osr, uploading, faults, cleanup>>

\* The compensating delete runs only with a file id learned in this run
RollbackDeletes(j) == j.uploaded_file_id # NoId /\ j.rag

\* Lines 335-338: what the handler commits: the error, ERROR, and a file id the
\* body had set on the row without committing it
HandlerRow(doc, j) ==
    SetStatus([doc EXCEPT !.err = SanitizeError(j.exc),
                          !.fid = IF j.pendFid # NoId THEN j.pendFid ELSE @],
              ERROR, "job_handler")

\* Lines 311-339: the outer failure handler
RunIngestion_Handler(w) ==
    /\ job[w].pc = "handler"
    /\ LET j == job[w]
           d == j.doc
       IN /\ IF RollbackDeletes(j)
             THEN \E deleted \in BOOLEAN :
                  remoteFiles' = [remoteFiles EXCEPT ![d] =
                                     IF deleted THEN @ \ {j.uploaded_file_id} ELSE @]
             ELSE remoteFiles' = remoteFiles
          /\ docs' = [docs EXCEPT ![d] = HandlerRow(@, j)]
          /\ job' = [job EXCEPT ![w] = Ended([j EXCEPT !.delArg =
                                   IF RollbackDeletes(j) THEN j.uploaded_file_id ELSE NoId], "handled")]
          /\ tmpFile' = [tmpFile EXCEPT ![d] = FALSE]
    /\ UNCHANGED chatVars
    /\ UNCHANGED <<storeDeleted, now, ticks, queued, runs, uploadCalls, indexLogs,
                   osr, uploading, faults, cleanup>>

\* ------------------------------------------- failures of the database
\* A commit of the job's session raises: the session is rolled back, what the
\* step had set on the row is lost, and the exception goes to the handler.
Failing(j, msg) == [j EXCEPT !.pc = "handler", !.exc = msg, !.pendFid = NoId]

\* A commit of lines 178, 195, 207 or 212 raises
RunIngestion_StartCommitFails(w, d) ==
    /\ CanStart(w, d)
    /\ faults < MaxFaults
    /\ StartOutcome(docs[d]) \in {"store_missing", "skip_existing_operation",
                                  "skip_already_running", "running"}
    /\ job' = [job EXCEPT ![w] = Failing([IdleJob EXCEPT !.doc = d], MsgDbError)]
    /\ runs' = [runs EXCEPT ![d] = @ + 1]
    /\ faults' = faults + 1
    /\ UNCHANGED chatVars
    /\ UNCHANGED <<docs, storeDeleted, now, ticks, tmpFile, queued, uploadCalls,
                   remoteFiles, indexLogs, osr, uploading, cleanup>>

\* The upload succeeds and the commit of line 269 raises
RunIngestion_UploadCommitFails(w) ==
    /\ job[w].pc = "upload"
    /\ faults < MaxFaults
    /\ LET j == Refreshed(job[w])
           d == j.doc
           newId == uploadCalls[d] + 1
       IN /\ j.vop = NoId /\ tmpFile[d]
          /\ \E answer \in UploadAnswers \ {"raise", "ok_no_operation_name"} :
                job' = [job EXCEPT ![w] =
                           Failing([j EXCEPT !.uploaded = TRUE,
                                             !.uploaded_file_id = LearnedFileId(answer, j.vfid, newId)],
                                   MsgDbError)]
          /\ uploadCalls' = [uploadCalls EXCEPT ![d] = @ + 1]
          /\ remoteFiles' = [remoteFiles EXCEPT ![d] = @ \cup {newId}]
    /\ faults' = faults + 1
    /\ UNCHANGED chatVars
    /\ UNCHANGED <<docs, storeDeleted, now, ticks, tmpFile, queued, runs, indexLogs,
                   osr, uploading, cleanup>>

\* The poll ends and the commit of line 298 raises
RunIngestion_PollCommitFails(w) ==
    /\ job[w].pc \in {"poll", "polling"}
    /\ faults < MaxFaults
    /\ \E answer \in {"error", "done", "timeout"} :
          /\ (answer = "timeout") => (job[w].pc = "polling")
          /\ job' = [job EXCEPT ![w] =
                        Failing([@ EXCEPT !.pollFail = IF answer = "done" THEN "none" ELSE answer],
                                MsgDbError)]
    /\ faults' = faults + 1
    /\ UNCHANGED chatVars
    /\ UNCHANGED <<docs, storeDeleted, now, ticks, tmpFile, queued, runs, uploadCalls,
                   remoteFiles, indexLogs, osr, uploading, cleanup>>

\* _log_index_cost fails: inside its try (swallowed), or outside it (the metrics
\* update of line 80, session_factory() of line 82, or db.rollback() of its
\* except clause raises)
RunIngestion_LogIndexCostFails(w) ==
    /\ job[w].pc = "cost"
    /\ faults < MaxFaults
    /\ CalcIndexCost(EstimateTokensFromBytes(docs[job[w].doc].size)) > 0
    /\ \E swallowed \in BOOLEAN :
          IF swallowed
          THEN /\ job' = [job EXCEPT ![w] = Ended([@ EXCEPT !.costFailed = TRUE], "done")]
               /\ tmpFile' = [tmpFile EXCEPT ![job[w].doc] = FALSE]
          ELSE /\ job' = [job EXCEPT ![w] = Failing([@ EXCEPT !.costFailed = TRUE], MsgCostError)]
               /\ tmpFile' = tmpFile
    /\ faults' = faults + 1
    /\ UNCHANGED chatVars
    /\ UNCHANGED <<docs, storeDeleted, now, ticks, queued, runs, uploadCalls,
                   remoteFiles, indexLogs, osr, uploading, cleanup>>

\* The commit of line 338, in the handler, raises: the exception leaves
\* run_ingestion_sync
RunIngestion_HandlerCommitFails(w) ==
    /\ job[w].pc = "handler"
    /\ faults < MaxFaults
    /\ LET j == job[w]
           d == j.doc
       IN /\ IF RollbackDeletes(j)
             THEN \E deleted \in BOOLEAN :
                  remoteFiles' = [remoteFiles EXCEPT ![d] =
                                     IF deleted THEN @ \ {j.uploaded_file_id} ELSE @]
             ELSE remoteFiles' = remoteFiles
          /\ job' = [job EXCEPT ![w] = Ended([j EXCEPT !.raised = TRUE, !.delArg =
                                   IF RollbackDeletes(j) THEN j.uploaded_file_id ELSE NoId], "raised")]
          /\ tmpFile' = [tmpFile EXCEPT ![d] = FALSE]
    /\ faults' = faults + 1
    /\ UNCHANGED chatVars
    /\ UNCHANGED <<docs, storeDeleted, now, ticks, queued, runs, uploadCalls, indexLogs,
                   osr, uploading, cleanup>>

\* ------------------------------------------------------------ the sweeps
\* func.coalesce(Document.status_updated_at, Document.created_at); a missing
\* timestamp is negative
Coalesce(ts, created) == IF ts >= 0 THEN ts ELSE created

\* The filter were its comparison not strict
StuckAtBoundary(doc, cutoff) ==
    /\ doc.exists
    /\ doc.status = RUNNING
    /\ Coalesce(doc.ts, doc.created) <= cutoff
    /\ ~storeDeleted
    /\ ~doc.deleted

\* The filter of both sweeps
Stuck(doc, cutoff) ==
    /\ doc.exists
    /\ doc.status = RUNNING
    /\ Coalesce(doc.ts, doc.created) < cutoff
    /\ ~storeDeleted
    /\ ~doc.deleted

\* The cutoff: now minus the TTL
Cutoff(ttl_minutes) == now - TtlSeconds(ttl_minutes)

\* if body.user_id: query.filter(Store.user_id == body.user_id)
UserFilter(user_id) == user_id = NoId \/ STORE_USER = user_id

\* A reset that kept the operation handle
ResetRowKeepingHandle(doc, st, who) == SetStatus(doc, st, who)

\* The row a sweep writes for a selected document
ResetRow(doc, st, who) == [SetStatus(doc, st, who) EXCEPT !.op = NoId]

\* reset_stuck_documents (the cron task): RUNNING -> ERROR
WatchdogRows ==
    [d \in DocIds |-> IF Stuck(docs[d], Cutoff(WATCHDOG_TTL_MINUTES))
                      THEN ResetRow(docs[d], ERROR, "watchdog") ELSE docs[d]]

reset_stuck_documents ==
    /\ docs' = WatchdogRows
    /\ UNCHANGED chatVars
    /\ UNCHANGED <<storeDeleted, now, ticks, tmpFile, queued, runs, job, uploadCalls,
                   remoteFiles, indexLogs, osr, uploading, faults, cleanup>>

\* admin_reset_stuck (POST /admin/watchdog/reset-stuck): RUNNING -> PENDING
AdminRows(ttl_minutes, user_id) ==
    [d \in DocIds |-> IF Stuck(docs[d], Cutoff(ttl_minutes)) /\ UserFilter(user_id)
                      THEN ResetRow(docs[d], PENDING, "admin_reset") ELSE docs[d]]

admin_reset_stuck(ttl_minutes, user_id) ==
    /\ docs' = AdminRows(ttl_minutes, user_id)
    /\ UNCHANGED chatVars
    /\ UNCHANGED <<storeDeleted, now, ticks, tmpFile, queued, runs, job, uploadCalls,
                   remoteFiles, indexLogs, osr, uploading, faults, cleanup>>

\* ------------------------------------------------------------ the routes
\* The next id of the documents table
NextDocId(d) == ~docs[d].exists /\ \A e \in DocIds : e < d => docs[e].exists

\* upload, lines 227-235: the row is created PENDING and committed
Upload_Create(d, size) ==
    /\ NextDocId(d)
    /\ ~storeDeleted
    /\ ~UploadBudgetRejects(limit, spend, size)
    /\ docs' = [docs EXCEPT ![d] = [NoDoc EXCEPT !.exists = TRUE, !.status = PENDING,
                                       !.ts = now, !.created = now, !.size = size,
                                       !.by = "upload"]]
    /\ tmpFile' = [tmpFile EXCEPT ![d] = TRUE]
    /\ uploading' = [uploading EXCEPT ![d] = TRUE]
    /\ UNCHANGED chatVars
    /\ UNCHANGED <<storeDeleted, now, ticks, queued, runs, job, uploadCalls,
                   remoteFiles, indexLogs, osr, faults, cleanup>>

\* upload, lines 255-285: the job is enqueued, or the row is marked ERROR
Upload_Enqueue(d) ==
    /\ uploading[d]
    /\ \E enqueued \in BOOLEAN :
       IF enqueued
       THEN /\ queued' = [queued EXCEPT ![d] = TRUE]
            /\ UNCHANGED <<docs, tmpFile>>
       ELSE /\ docs' = [docs EXCEPT ![d] = SetStatus(@, ERROR, "upload")]
            /\ tmpFile' = [tmpFile EXCEPT ![d] = FALSE]
            /\ queued' = queued
    /\ uploading' = [uploading EXCEPT ![d] = FALSE]
    /\ UNCHANGED chatVars
    /\ UNCHANGED <<storeDeleted, now, ticks, runs, job, uploadCalls, remoteFiles,
                   indexLogs, osr, faults, cleanup>>

\* require_document_owned_by_user
DocVisible(doc) == doc.exists /\ ~doc.deleted /\ ~storeDeleted

\* op_status, lines 311-327: the row is read and the remote status asked
OpStatus_Read(d) ==
    /\ ~osr[d]
    /\ DocVisible(docs[d])
    /\ docs[d].status \notin {DONE, ERROR}
    /\ docs[d].op # NoId
    /\ osr' = [osr EXCEPT ![d] = TRUE]
    /\ UNCHANGED chatVars
    /\ UNCHANGED <<docs, storeDeleted, now, ticks, tmpFile, queued, runs, job,
                   uploadCalls, remoteFiles, indexLogs, uploading, faults, cleanup>>

OpStatusAnswers == {"exception", "error", "done", "pending"}

OpStatusRow(doc, answer) ==
    IF answer = "error" THEN SetStatus(doc, ERROR, "op_status")
    ELSE IF answer = "done" THEN SetStatus(doc, DONE, "op_status")
    ELSE doc

\* op_status, lines 328-350: the answer is written to the row
OpStatus_Write(d) ==
    /\ osr[d]
    /\ \E answer \in OpStatusAnswers : docs' = [docs EXCEPT ![d] = OpStatusRow(@, answer)]
    /\ osr' = [osr EXCEPT ![d] = FALSE]
    /\ UNCHANGED chatVars
    /\ UNCHANGED <<storeDeleted, now, ticks, tmpFile, queued, runs, job, uploadCalls,
                   remoteFiles, indexLogs, uploading, faults, cleanup>>

\* delete_document: the row is soft-deleted
delete_document(d) ==
    /\ DocVisible(docs[d])
    /\ docs' = [docs EXCEPT ![d] = [@ EXCEPT !.deleted = TRUE]]
    /\ cleanup' = [cleanup EXCEPT ![d] = "scheduled"]
    /\ UNCHANGED chatVars
    /\ UNCHANGED <<storeDeleted, now, ticks, tmpFile, queued, runs, job, uploadCalls,
                   remoteFiles, indexLogs, osr, uploading, faults>>

\* _delete_remote_document, the background task of delete_document: the file
\* whose id the row carries when the task runs is deleted remotely, unless the
\* row carries none or the call raises (logged, nothing more)
DeleteRemoteDocument(d) ==
    /\ cleanup[d] = "scheduled"
    /\ IF docs[d].fid = NoId
       THEN /\ cleanup' = [cleanup EXCEPT ![d] = "skipped_no_file_id"]
            /\ remoteFiles' = remoteFiles
       ELSE \E raised \in BOOLEAN :
            /\ cleanup' = [cleanup EXCEPT ![d] = IF raised THEN "failed" ELSE "deleted"]
            /\ remoteFiles' = [remoteFiles EXCEPT ![d] =
                                  IF raised THEN @ ELSE @ \ {docs[d].fid}]
    /\ UNCHANGED chatVars
    /\ UNCHANGED <<docs, storeDeleted, now, ticks, tmpFile, queued, runs, job,
                   uploadCalls, indexLogs, osr, uploading, faults>>

\* delete_store: the store and its live documents are soft-deleted
delete_store ==
    /\ ~storeDeleted
    /\ storeDeleted' = TRUE
    /\ docs' = [d \in DocIds |-> IF docs[d].exists /\ ~docs[d].deleted
                                 THEN [docs[d] EXCEPT !.deleted = TRUE] ELSE docs[d]]
    /\ UNCHANGED chatVars
    /\ UNCHANGED <<now, ticks, tmpFile, queued, runs, job, uploadCalls,
                   remoteFiles, indexLogs, osr, uploading, faults, cleanup>>

\* restore_document (admin): the row's deleted_at is cleared, whatever the
\* state of its store
restore_document(d) ==
    /\ docs[d].exists
    /\ docs[d].deleted
    /\ docs' = [docs EXCEPT ![d] = [@ EXCEPT !.deleted = FALSE]]
    /\ UNCHANGED chatVars
    /\ UNCHANGED <<storeDeleted, now, ticks, tmpFile, queued, runs, job, uploadCalls,
                   remoteFiles, indexLogs, osr, uploading, faults, cleanup>>

\* restore_store (admin): deleted_at of the store and of all its documents is
\* cleared
restore_store ==
    /\ storeDeleted
    /\ storeDeleted' = FALSE
    /\ docs' = [d \in DocIds |-> [docs[d] EXCEPT !.deleted = FALSE]]
    /\ UNCHANGED chatVars
    /\ UNCHANGED <<now, ticks, tmpFile, queued, runs, job, uploadCalls,
                   remoteFiles, indexLogs, osr, uploading, faults, cleanup>>

\* ------------------------------------------------- chat_stream.generator
\* The question of the request
Question == <<"w", "h", "y", "?">>

\* _estimate_tokens_from_text of a text of n characters
EstimateTokensFromText(n) == IF n = 0 THEN 0 ELSE Max(1, n \div 4)

prompt_tokens_est == EstimateTokensFromText(Len(Question))

\* calc_query_cost(model, prompt, completion).total_cost_usd, in micro-USD
CalcQueryCost(prompt_tokens, completion_tokens) ==
    QueryCostResult(prompt_tokens, completion_tokens,
                    [input_price |-> PRICE_PER_MTOK_INPUT,
                     output_price |-> PRICE_PER_MTOK_OUTPUT,
                     index_price |-> PRICE_PER_MTOK_INDEX]).total_cost_usd

\* ------------------------------------------------------------ budgets
\* A pre-check that computes the headroom and rejects nothing
PrecheckNeverRejects(lim, sp, prompt_cost) ==
    [rejected |-> FALSE, remaining |-> IF lim = NoBudget THEN NoBudget ELSE Max(0, lim - sp)]

\* chat_stream, lines 432-452: the pre-check.  The answer is the headroom left
\* to the stream (remaining_budget_usd), or the rejection.
ChatPrecheck(lim, sp, prompt_cost) ==
    IF lim = NoBudget THEN [rejected |-> FALSE, remaining |-> NoBudget]
    ELSE LET remaining == Max(0, lim - sp)
             held == IF BUDGET_HOLD_USD > 0 THEN remaining - BUDGET_HOLD_USD ELSE remaining
         IN IF remaining <= 0 THEN [rejected |-> TRUE, remaining |-> remaining]
            ELSE IF BUDGET_HOLD_USD > 0 /\ remaining <= BUDGET_HOLD_USD
            THEN [rejected |-> TRUE, remaining |-> remaining]
            ELSE IF prompt_cost > held THEN [rejected |-> TRUE, remaining |-> held]
            ELSE [rejected |-> FALSE, remaining |-> held]

\* chat_stream.generator, lines 757-761: the check after the stream
PostStreamOverBudget(lim, sp, cost) == cost > 0 /\ WouldExceedBudget(lim, sp, cost)

\* Budget.monthly_limit_usd: no row, or one dollar
Limits == {NoBudget, MTOK}
\* Month-to-date spends: nothing; four micro-USD of headroom above the hold; the
\* hold exactly left; the limit reached
Spends == {0, MTOK - BUDGET_HOLD_USD - 4, MTOK - BUDGET_HOLD_USD, MTOK}

\* A user of the chat: any budget row, any spend so far
ChatInit ==
    /\ InitBut
    /\ limit \in Limits
    /\ spend \in IF limit = NoBudget THEN {0} ELSE Spends
    /\ calc = NoCalc

\* Month-to-date spends around the limit and around the hold below it
BudgetSpends == {0, MTOK - BUDGET_HOLD_USD - 4, MTOK - BUDGET_HOLD_USD - 1,
                 MTOK - BUDGET_HOLD_USD, MTOK - 1, MTOK, MTOK + 1}
\* size_bytes of the files checked: empty, 1000 bytes, 4000 bytes
BudgetSizes == {0, 1000, 4000}
\* Lengths of the questions checked
QuestionLengths == {4, 40}
\* Completion tokens of the streams checked
BudgetCompletions == {0, 3}
\* add_cost of the calls of would_exceed_budget, in micro-USD (its callers pass
\* positive costs only)
AddCosts == {1, 2, 3}

\* Any budget row and any spend of the month
BudgetInit ==
    /\ InitBut
    /\ limit \in Limits
    /\ spend \in BudgetSpends
    /\ calc = NoCalc

\* would_exceed_budget(db, user_id, add_cost)
Budget_WouldExceed(add_cost) ==
    /\ verdict' = [site |-> "would_exceed", limit |-> limit, spend |-> spend,
                   cost |-> add_cost, rejected |-> WouldExceedBudget(limit, spend, add_cost)]
    /\ UNCHANGED <<sem, gen, limit, spend, calc, pipe, ingestVars>>

\* upload, lines 209-225: the budget check of a file of the given size
Budget_Upload(size) ==
    /\ verdict' = [site |-> "upload", limit |-> limit, spend |-> spend,
                   cost |-> CalcIndexCost(EstimateTokensFromBytes(size)),
                   rejected |-> UploadBudgetRejects(limit, spend, size)]
    /\ UNCHANGED <<sem, gen, limit, spend, calc, pipe, ingestVars>>

\* chat_stream, lines 432-452: the pre-check of a question of the given length
Budget_ChatPrecheck(n) ==
    LET prompt_cost == CalcQueryCost(EstimateTokensFromText(n), 0)
    IN /\ verdict' = [site |-> "chat_precheck", limit |-> limit, spend |-> spend,
                      cost |-> prompt_cost,
                      rejected |-> ChatPrecheck(limit, spend, prompt_cost).rejected]
       /\ UNCHANGED <<sem, gen, limit, spend, calc, pipe, ingestVars>>

\* chat_stream.generator, lines 754-761: the check of the definitive cost
Budget_PostStream(completion_toks) ==
    LET cost == CalcQueryCost(prompt_tokens_est, completion_toks)
    IN /\ verdict' = [site |-> "post_stream", limit |-> limit, spend |-> spend,
                      cost |-> cost, rejected |-> PostStreamOverBudget(limit, spend, cost)]
       /\ UNCHANGED <<sem, gen, limit, spend, calc, pipe, ingestVars>>

\* ------------------------------------------------------ store ownership
\* What the second store id of a chat request names ("none": the request names
\* no store id at all)
StoreKinds == {"none", "owned", "other_tenant", "soft_deleted", "missing"}

\* The stores table as a request naming the ids 1 and 2 finds it: store 1 is a
\* live store of the caller, store 2 is what the kind says
StoresTable(kind) ==
    {[id |-> 1, user_id |-> STORE_USER, deleted |-> FALSE]}
    \cup (CASE kind = "owned" -> {[id |-> 2, user_id |-> STORE_USER, deleted |-> FALSE]}
            [] kind = "other_tenant" -> {[id |-> 2, user_id |-> STORE_USER + 1, deleted |-> FALSE]}
            [] kind = "soft_deleted" -> {[id |-> 2, user_id |-> STORE_USER, deleted |-> TRUE]}
            [] OTHER -> {})

\* store_ids of the request
RequestStoreIds(kind) == IF kind = "none" THEN {} ELSE {1, 2}

\* A check that tells a foreign store from one that is not there
RequireStoresTellingForeign(ids, table, user_id) ==
    IF ids = {} THEN [http |-> 400, detail |-> "Missing storeIds"]
    ELSE IF \E r \in table : r.id \in ids /\ r.user_id # user_id
    THEN [http |-> 403, detail |-> "Forbidden"]
    ELSE IF \E i \in ids : ~\E r \in table : r.id = i /\ ~r.deleted
    THEN [http |-> 404, detail |-> "Store not found"]
    ELSE [http |-> 200, detail |-> ""]

\* require_stores_owned_by_user: the response of the request, 200 when it goes on
RequireStoresOwnedByUser(ids, table, user_id) ==
    LET found_ids == {r.id : r \in {r \in table : r.id \in ids /\ r.user_id = user_id /\ ~r.deleted}}
        missing == ids \ found_ids
    IN IF ids = {} THEN [http |-> 400, detail |-> "Missing storeIds"]
       ELSE IF missing # {} THEN [http |-> 404, detail |-> "Store not found"]
       ELSE [http |-> 200, detail |-> ""]

\* chat_stream, lines 360-490: the request is authorized and its budget checked
\* before the streaming response is created
Chat_Preflight(s) ==
    /\ gen[s].pc = "request"
    /\ \E kind \in StoreKinds :
       LET g == [gen[s] EXCEPT !.store = kind]
           resp == RequireStoresOwnedByUser(RequestStoreIds(kind), StoresTable(kind), STORE_USER)
           check == ChatPrecheck(limit, spend, CalcQueryCost(prompt_tokens_est, 0))
       IN gen' = [gen EXCEPT ![s] =
             IF resp.http # 200
             THEN [g EXCEPT !.pc = "rejected", !.http = resp.http, !.detail = resp.detail]
             ELSE IF check.rejected
             THEN [g EXCEPT !.pc = "rejected", !.http = 402,
                            !.detail = "Monthly budget exhausted"]
             ELSE [g EXCEPT !.pc = "new", !.remaining_budget_usd = check.remaining]]
    /\ UNCHANGED <<sem, budgetVars, ingestVars>>

\* --------------------------------------------------------------- frames
\* The lengths of the text of a chunk (0: the chunk has no text)
ChunkTexts == {0, 4}
\* str(exc) of an upstream exception: one names the prompt, one a server path
ExceptionTexts == {"bad prompt: why?", "boom at /srv/app/rag.py"}
\* What the consumer loop meets: a message of the producer thread or a
\* disconnected client.  (The keepalive comment of an idle queue is not a frame
\* and changes no local but last_send.)
QueueMessages ==
    {[kind |-> k, text |-> 0, candidates |-> FALSE, exc |-> ""] :
        k \in {"disconnect", "done", "error_retryable"}}
    \cup {[kind |-> "error_other", text |-> 0, candidates |-> FALSE, exc |-> e] :
             e \in ExceptionTexts}
    \cup {[kind |-> "error_backpressure", text |-> 0, candidates |-> FALSE,
           exc |-> "Stream backpressure: chunk queue full"]}
    \cup {[kind |-> "chunk", text |-> n, candidates |-> c, exc |-> ""] :
             n \in ChunkTexts, c \in BOOLEAN}
\* usage_metadata of the final response: absent (0), or its candidates_token_count
UsageCounts == {0, 3, 40000}
\* prompt_token_count of the usage metadata: absent (0), or the count
UsagePromptCounts == {0, 2}

\* The message each call of _send_error passes with its code
ErrorMessage(code) ==
    CASE code = "stream_capacity_exceeded" -> "Server is busy. Please try again."
      [] code = "budget_exceeded" -> "Monthly budget exceeded"
      [] code = "upstream_unavailable" -> "Service temporarily unavailable. Please try again."
      [] OTHER -> ""

\* No usage in a frame
NoUsage == << >>

Frame(type) == [type |-> type, code |-> "None", message |-> "", usage |-> NoUsage]
DoneFrame == Frame("[DONE]")
\* _sse_error
ErrorFrame(code) == [type |-> "error", code |-> code, message |-> ErrorMessage(code),
                     usage |-> NoUsage]
\* The finish frame and its usage
FinishFrame(prompt_toks, completion_toks) ==
    [type |-> "finish", code |-> "None", message |-> "", usage |-> <<prompt_toks, completion_toks>>]

\* yield <frame>
Emit(g, frame) == [g EXCEPT !.frames = Append(@, frame)]

\* _send_error, yielded
SendError(g, code) ==
    [g EXCEPT !.error_sent = TRUE, !.last_error_code = code,
              !.frames = Append(@, ErrorFrame(code))]

\* if not error_sent: yield _send_error(code, ...)
SendErrorOnce(g, code) == IF g.error_sent THEN g ELSE SendError(g, code)

\* A message that hands str(exc) to the client
ExceptionText(exc) == exc

\* Line 675: safe_error, whatever the exception
SafeError(exc) == "An error occurred processing your request. Please try again."

\* The frame of the generic handler
UnexpectedErrorFrame(exc) ==
    [type |-> "error", code |-> "unexpected_error", message |-> SafeError(exc),
     usage |-> NoUsage]

\* A finally clause that released without looking at sem_acquired
PermitRegardless(g) == 1

\* The permits the finally clause gives back
Permit(g) == IF g.sem_acquired THEN 1 ELSE 0

\* return, and the finally clause: if sem_acquired: _stream_semaphore.release()
Close(g) == [g EXCEPT !.pc = "closed", !.released = @ + Permit(g)]

\* A wait that gives up although a permit is free
TimesOutAnyway(permits) == TRUE

\* asyncio.wait_for(_stream_semaphore.acquire(), timeout=2.0) times out: no
\* permit was released within the 2 seconds
AcquireTimesOut(permits) == permits = 0

\* Lines 521-537: the semaphore is acquired, start and text-start are sent
Stream_Acquire(s) ==
    /\ gen[s].pc = "new"
    /\ sem > 0
    /\ sem' = sem - 1
    /\ gen' = [gen EXCEPT ![s] =
                 Emit(Emit([@ EXCEPT !.pc = "attempt", !.sem_acquired = TRUE],
                           Frame("start")), Frame("text-start"))]
    /\ UNCHANGED <<budgetVars, ingestVars>>

\* Lines 524-532: no permit within 2 seconds
Stream_AcquireTimeout(s) ==
    /\ gen[s].pc = "new"
    /\ AcquireTimesOut(sem)
    /\ gen' = [gen EXCEPT ![s] =
                 Close(Emit(SendError([@ EXCEPT !.cause = "capacity"],
                                      "stream_capacity_exceeded"), DoneFrame))]
    /\ sem' = sem + Permit(gen[s])
    /\ UNCHANGED <<budgetVars, ingestVars>>

\* Lines 539-568: the head of the retry loop; the producer thread calls ask_stream
Stream_Attempt(s) ==
    /\ gen[s].pc = "attempt"
    /\ LET g == gen[s]
       IN IF g.retry_count > GEMINI_STREAM_RETRY_ATTEMPTS
          THEN gen' = [gen EXCEPT ![s] = [g EXCEPT !.pc = "after"]]
          ELSE \E disconnected \in BOOLEAN :
               gen' = [gen EXCEPT ![s] =
                          IF disconnected
                          THEN [g EXCEPT !.stream_failed = TRUE, !.cause = "disconnect",
                                         !.pc = "after"]
                          ELSE [g EXCEPT !.asked = @ + 1, !.pc = "consume"]]
    /\ UNCHANGED <<sem, budgetVars, ingestVars>>

\* Frames of a type sent so far
CountFrames(g, type) == Cardinality({i \in 1..Len(g.frames) : g.frames[i].type = type})

\* A backoff that grew by one second a failure
Linear(k) == k + 1

\* 2**retry_count
RECURSIVE Pow2(_)
Pow2(k) == IF k = 0 THEN 1 ELSE 2 * Pow2(k - 1)

\* Lines 634-664: except RETRYABLE_EXCEPTIONS
OnRetryable(g) ==
    LET rc == g.retry_count + 1
    IN IF rc > GEMINI_STREAM_RETRY_ATTEMPTS
       THEN [SendErrorOnce([g EXCEPT !.retry_count = rc, !.stream_failed = TRUE,
                                     !.cause = "retries_exhausted"],
                           "upstream_unavailable") EXCEPT !.pc = "after"]
       ELSE [g EXCEPT !.retry_count = rc, !.slept = Append(@, Pow2(rc)), !.pc = "attempt"]

\* Lines 666-679: except Exception
OnException(g, kind, exc) ==
    LET g1 == [g EXCEPT !.stream_failed = TRUE, !.cause = kind, !.exc_text = exc]
    IN [(IF g1.error_sent THEN g1
         ELSE [g1 EXCEPT !.error_sent = TRUE, !.last_error_code = "unexpected_error",
                         !.frames = Append(@, UnexpectedErrorFrame(exc))])
          EXCEPT !.pc = "after"]

\* The breaker were it to leave the current delta out of the projected cost
OverBudgetBeforeDelta(g, used) ==
    g.remaining_budget_usd # NoBudget
    /\ CalcQueryCost(prompt_tokens_est, g.completion_tokens_used) > g.remaining_budget_usd

\* A breaker that leaves the prompt out of the estimated cost
OverBudgetCompletionOnly(g, used) ==
    g.remaining_budget_usd # NoBudget
    /\ CalcQueryCost(0, used) > g.remaining_budget_usd

\* estimated_cost > remaining_budget_usd
OverBudget(g, used) ==
    g.remaining_budget_usd # NoBudget
    /\ CalcQueryCost(prompt_tokens_est, used) > g.remaining_budget_usd

\* Lines 596-625: a chunk of the upstream
OnChunk(g, text, candidates) ==
    LET used == g.completion_tokens_used + EstimateTokensFromText(text)
        g1 == [g EXCEPT !.seen = IF text > 0 THEN Append(@, text) ELSE @]
    IN IF text > 0 /\ OverBudget(g, used)
       THEN [SendErrorOnce([g1 EXCEPT !.completion_tokens_used = used,
                                      !.budget_exhausted = TRUE, !.cause = "budget"],
                           "budget_exceeded")
               EXCEPT !.pc = "after"]
       ELSE IF text > 0
       THEN [Emit(g1, Frame("text-delta")) EXCEPT !.completion_tokens_used = used,
                   !.text_parts = @ + 1, !.final_resp = @ \/ candidates]
       ELSE [g1 EXCEPT !.final_resp = @ \/ candidates]

\* Lines 569-632: one turn of the consumer loop
Stream_Consume(s) ==
    /\ gen[s].pc = "consume"
    /\ LET g == gen[s]
       IN \E msg \in QueueMessages :
          /\ msg.kind = "chunk" => Len(g.seen) < MaxChunks
          /\ gen' = [gen EXCEPT ![s] =
                CASE msg.kind = "disconnect" -> [g EXCEPT !.stream_failed = TRUE,
                                                          !.cause = "disconnect", !.pc = "after"]
                  [] msg.kind = "done" -> [g EXCEPT !.pc = "after"]
                  [] msg.kind = "error_retryable" -> OnRetryable(g)
                  [] msg.kind \in {"error_other", "error_backpressure"} -> OnException(g, msg.kind, msg.exc)
                  [] msg.kind = "chunk" -> OnChunk(g, msg.text, msg.candidates)]
    /\ UNCHANGED <<sem, budgetVars, ingestVars>>

\* Lines 681-702: the QueryLog row of a failed stream
LogsFailure(g) == g.stream_failed /\ g.last_error_code \notin {"None", "budget_exceeded"}

\* The zero-cost QueryLog row of a failed stream
FailureRow(g) ==
    [cost_usd |-> 0, error_code |-> g.last_error_code, prompt_tokens |-> prompt_tokens_est,
     completion_tokens |-> g.completion_tokens_used]

\* Lines 681-729: after the retry loop, up to the citations; committed: the
\* commit of the failure row goes through
AfterRetryLoop(s, committed) ==
    /\ gen[s].pc = "after"
    /\ LET g == gen[s]
       IN IF g.stream_failed \/ g.budget_exhausted
          THEN /\ gen' = [gen EXCEPT ![s] =
                     Close(Emit([g EXCEPT !.rows = IF LogsFailure(g) /\ committed
                                                   THEN Append(@, FailureRow(g)) ELSE @],
                                DoneFrame))]
               /\ sem' = sem + Permit(g)
          ELSE /\ \E cited \in BOOLEAN :
                    /\ cited => g.final_resp
                    /\ gen' = [gen EXCEPT ![s] =
                          [(IF cited THEN Emit(Emit(g, Frame("text-end")), Frame("source-document"))
                            ELSE Emit(g, Frame("text-end"))) EXCEPT !.pc = "log"]]
               /\ sem' = sem
    /\ UNCHANGED <<budgetVars, ingestVars>>

Stream_After(s) == AfterRetryLoop(s, TRUE)

\* Lines 697-699: the commit of the failure row raises and is swallowed
Stream_AfterLogFails(s) ==
    /\ LogsFailure(gen[s])
    /\ AfterRetryLoop(s, FALSE)

\* usage_metadata of the final response: none, or its two counts
UsageMetadata(g) ==
    IF g.final_resp
    THEN {[prompt_token_count |-> p, candidates_token_count |-> c] :
             p \in UsagePromptCounts, c \in UsageCounts}
    ELSE {NoUsageMetadata}

\* Lines 731-752.  prompt_toks: the usage metadata's count, else the estimate
PromptToks(g, usage) ==
    IF usage.prompt_token_count > 0 THEN usage.prompt_token_count ELSE prompt_tokens_est

\* A completion count that left the usage metadata aside
EstimateOnly(g, usage) == g.completion_tokens_used

\* completion_toks: the usage metadata's count, else the running estimate
CompletionToks(g, usage) ==
    IF usage.candidates_token_count > 0 THEN usage.candidates_token_count
    ELSE g.completion_tokens_used

\* The QueryLog row of a completed stream
CostRow(cost, prompt_toks, completion_toks) ==
    [cost_usd |-> cost, error_code |-> "None", prompt_tokens |-> prompt_toks,
     completion_tokens |-> completion_toks]

\* What the database does while the cost is logged
LogOutcomes == {"ok", "commit_fails", "budget_query_raises"}

\* Lines 731-828: the cost, the post-hoc budget check, the QueryLog row, the
\* assistant message, finish
LogCost(s, db) ==
    /\ gen[s].pc = "log"
    /\ LET g == gen[s]
       IN \E usage \in UsageMetadata(g) :
          LET prompt_toks == PromptToks(g, usage)
              completion_toks == CompletionToks(g, usage)
              cost == CalcQueryCost(prompt_toks, completion_toks)
              over_budget == PostStreamOverBudget(limit, spend, cost)
              g1 == [g EXCEPT !.rows = IF db = "ok"
                                       THEN Append(@, CostRow(cost, prompt_toks, completion_toks))
                                       ELSE @,
                              !.saved = g.text_parts > 0, !.usage = usage]
          IN /\ db = "budget_query_raises" => cost > 0
             /\ gen' = [gen EXCEPT ![s] =
                   IF db = "budget_query_raises"
                   THEN Close([g EXCEPT !.raised = TRUE, !.cause = "log_raised"])
                   ELSE IF over_budget \/ g.budget_exhausted
                   THEN Close(Emit(SendErrorOnce([g1 EXCEPT !.cause = "budget_post"],
                                                 "budget_exceeded"), DoneFrame))
                   ELSE Close(Emit(Emit(g1, FinishFrame(prompt_toks, completion_toks)),
                                   DoneFrame))]
             /\ spend' = IF db = "ok" THEN spend + cost ELSE spend
             /\ sem' = sem + Permit(g)
    /\ UNCHANGED <<limit, verdict, calc, pipe, ingestVars>>

Stream_LogCost(s) == LogCost(s, "ok")

\* Lines 760-787: the budget query raises, or the commit of the row raises and
\* is swallowed
Stream_LogCostFails(s) == \E db \in LogOutcomes \ {"ok"} : LogCost(s, db)

\* ------------------------------------------------------- specifications
Next ==
    \/ Tick
    \/ \E w \in Workers, d \in DocIds : RunIngestion_Start(w, d)
    \/ \E w \in Workers : RunIngestion_Upload(w)
    \/ \E w \in Workers : RunIngestion_Poll(w)
    \/ \E w \in Workers : RunIngestion_LogIndexCost(w)
    \/ \E w \in Workers : RunIngestion_Handler(w)
    \/ reset_stuck_documents
    \/ \E ttl \in AdminTtls, u \in AdminUserIds : admin_reset_stuck(ttl, u)
    \/ \E d \in DocIds, size \in DocSizes : Upload_Create(d, size)
    \/ \E d \in DocIds : Upload_Enqueue(d)
    \/ \E d \in DocIds : OpStatus_Read(d)
    \/ \E d \in DocIds : OpStatus_Write(d)
    \/ \E d \in DocIds : delete_document(d)
    \/ delete_store
    \/ \E d \in DocIds : restore_document(d)
    \/ restore_store

Spec == Init /\ [][Next]_vars

\* The chat streams alone
ChatNext ==
    \/ \E s \in Streams : Chat_Preflight(s)
    \/ \E s \in Streams : Stream_Acquire(s)
    \/ \E s \in Streams : Stream_AcquireTimeout(s)
    \/ \E s \in Streams : Stream_Attempt(s)
    \/ \E s \in Streams : Stream_Consume(s)
    \/ \E s \in Streams : Stream_After(s)
    \/ \E s \in Streams : Stream_LogCost(s)

ChatSpec == ChatInit /\ [][ChatNext]_vars

\* The ingestion job alone, its poll loop on the loop's clock.  A worker inside
\* the loop goes on: op_status returns and the sleeps end.
JobNext ==
    \/ \E d \in DocIds, size \in DocSizes : Upload_Create(d, size)
    \/ \E d \in DocIds : Upload_Enqueue(d)
    \/ \E w \in Workers, d \in DocIds : RunIngestion_Start(w, d)
    \/ \E w \in Workers : RunIngestion_Upload(w)
    \/ \E w \in Workers : WaitForOperation_Iterate(w)
    \/ \E w \in Workers : RunIngestion_LogIndexCost(w)
    \/ \E w \in Workers : RunIngestion_Handler(w)

JobSpec ==
    /\ Init /\ [][JobNext]_vars
    /\ \A w \in Workers : WF_vars(WaitForOperation_Iterate(w))

\* The budget checks alone
BudgetNext ==
    \/ \E add_cost \in AddCosts : Budget_WouldExceed(add_cost)
    \/ \E size \in BudgetSizes : Budget_Upload(size)
    \/ \E n \in QuestionLengths : Budget_ChatPrecheck(n)
    \/ \E c \in BudgetCompletions : Budget_PostStream(c)

BudgetSpec == BudgetInit /\ [][BudgetNext]_vars

\* ------------------------------------ run_stream_in_thread and its consumer
\* chunk_queue.put without a timeout returns once the queue has room
HasRoom == Len(pipe.queue) < CHUNK_QUEUE_MAXSIZE

\* What rag.ask_stream does when asked for the next chunk
UpstreamAnswers == {"chunk", "end", "raise"}

\* Lines 550-554 and 560-562: the thread asks the upstream for a chunk; it
\* leaves the loop when the stop flag is set or the stream ends
Thread_Next ==
    /\ pipe.thread = "next"
    /\ \E answer \in UpstreamAnswers :
          /\ (answer = "chunk") => pipe.taken < MaxUpstreamChunks
          /\ pipe' = CASE answer = "chunk" ->
                            [pipe EXCEPT !.taken = @ + 1,
                                         !.thread = IF pipe.stop_event THEN "put_done"
                                                    ELSE "put_chunk"]
                        [] answer = "end" -> [pipe EXCEPT !.thread = "put_done"]
                        [] answer = "raise" -> [pipe EXCEPT !.thread = "put_exception"]
    /\ UNCHANGED <<sem, gen, limit, spend, verdict, calc, ingestVars>>

\* Line 556: chunk_queue.put(("chunk", chunk), timeout=1.0) finds room
Thread_PutChunk ==
    /\ pipe.thread = "put_chunk"
    /\ HasRoom
    /\ pipe' = [pipe EXCEPT !.queue = Append(@, "chunk"), !.thread = "next"]
    /\ UNCHANGED <<sem, gen, limit, spend, verdict, calc, ingestVars>>

\* Line 557: the queue stayed full for the second: queue.Full
Thread_PutChunkFull ==
    /\ pipe.thread = "put_chunk"
    /\ ~HasRoom
    /\ pipe' = [pipe EXCEPT !.thread = "put_backpressure"]
    /\ UNCHANGED <<sem, gen, limit, spend, verdict, calc, ingestVars>>

\* Lines 558-559: chunk_queue.put(("error", RuntimeError(...))), no timeout; break
Thread_PutBackpressure ==
    /\ pipe.thread = "put_backpressure"
    /\ HasRoom
    /\ pipe' = [pipe EXCEPT !.queue = Append(@, "error"), !.thread = "put_done"]
    /\ UNCHANGED <<sem, gen, limit, spend, verdict, calc, ingestVars>>

\* Line 560: chunk_queue.put(("done", None)), no timeout; the thread ends
Thread_PutDone ==
    /\ pipe.thread = "put_done"
    /\ HasRoom
    /\ pipe' = [pipe EXCEPT !.queue = Append(@, "done"), !.thread = "terminated"]
    /\ UNCHANGED <<sem, gen, limit, spend, verdict, calc, ingestVars>>

\* Lines 561-562: chunk_queue.put(("error", e)), no timeout; the thread ends
Thread_PutException ==
    /\ pipe.thread = "put_exception"
    /\ HasRoom
    /\ pipe' = [pipe EXCEPT !.queue = Append(@, "error"), !.thread = "terminated"]
    /\ UNCHANGED <<sem, gen, limit, spend, verdict, calc, ingestVars>>

\* Lines 627-631: the consumer leaves its loop: finally stop_event.set() and
\* stream_thread.join(timeout=1.0), which returns whether the thread ended or not
Leave(p, cause) == [p EXCEPT !.consumer = "left", !.cause = cause, !.stop_event = TRUE]

\* Lines 569-625: one round of the consumer's loop that does not find an empty
\* queue: the disconnect checks, and the message taken off the queue
Consumer_Iterate ==
    /\ pipe.consumer = "get"
    /\ IF pipe.disconnected
       THEN pipe' = Leave(pipe, "disconnect")
       ELSE /\ pipe.queue # << >>
            /\ LET msg == Head(pipe.queue)
                   p == [pipe EXCEPT !.queue = Tail(@)]
               IN CASE msg = "done" -> pipe' = Leave(p, "done")
                    [] msg = "error" ->
                         \E retryable \in BOOLEAN :
                            pipe' = Leave([p EXCEPT !.error_sent = ~retryable], "error")
                    [] msg = "chunk" ->
                         \E budget_exhausted \in BOOLEAN :
                            pipe' = IF budget_exhausted
                                    THEN Leave([p EXCEPT !.error_sent = TRUE,
                                                         !.last_send = p.clock], "budget")
                                    ELSE [p EXCEPT !.deltas = @ + 1,
                                                   !.last_send = p.clock]
    /\ UNCHANGED <<sem, gen, limit, spend, verdict, calc, ingestVars>>

\* The client goes away while the consumer is in its loop
Client_Disconnects ==
    /\ pipe.consumer = "get"
    /\ ~pipe.disconnected
    /\ pipe' = [pipe EXCEPT !.disconnected = TRUE, !.deltas_at_disconnect = pipe.deltas]
    /\ UNCHANGED <<sem, gen, limit, spend, verdict, calc, ingestVars>>

\* Lines 576-589: the queue stays empty for the 0.1 s of the get, or a little
\* longer until the loop runs again; the client is still there; a keepalive
\* comment is sent when the interval has passed since last_send
Consumer_Empty ==
    /\ pipe.consumer = "get"
    /\ pipe.queue = << >>
    /\ ~pipe.disconnected
    /\ pipe.clock < MaxClock
    /\ \E late \in {0, 1} :
          LET now_monotonic == pipe.clock + QUEUE_GET_TIMEOUT + late
          IN pipe' = IF /\ pipe.keepalive_interval # NoInterval
                        /\ now_monotonic - pipe.last_send >= pipe.keepalive_interval
                     THEN [pipe EXCEPT !.clock = now_monotonic,
                                       !.keepalives = @ + 1,
                                       !.last_send = now_monotonic]
                     ELSE [pipe EXCEPT !.clock = now_monotonic]
    /\ UNCHANGED <<sem, gen, limit, spend, verdict, calc, ingestVars>>

ThreadNext ==
    \/ Thread_Next
    \/ Thread_PutChunk
    \/ Thread_PutChunkFull
    \/ Thread_PutBackpressure
    \/ Thread_PutDone
    \/ Thread_PutException

StreamNext ==
    \/ ThreadNext
    \/ Consumer_Iterate
    \/ Client_Disconnects

\* One attempt of a stream; the thread and the consumer's loop each make the
\* step they can make (the operating system schedules both, the upstream answers)
StreamSpec ==
    /\ Init /\ [][StreamNext]_vars
    /\ WF_vars(ThreadNext)
    /\ WF_vars(Consumer_Iterate)

\* ------------------------------------------- the cost engine's functions
\* Entries of MODEL_PRICING, in micro-USD per million tokens; every entry has
\* an input and an output price (validate_model_pricing)
DefaultEntry ==
    [k |-> DefaultKey,
     v |-> [input_price |-> 300000, output_price |-> 2500000, index_price |-> 1500]]
Gemini25ProEntry ==
    [k |-> Gemini25Pro,
     v |-> [input_price |-> 1250000, output_price |-> 10000000, index_price |-> 1500]]
Gemini15Entry == [k |-> Gemini15, v |-> [input_price |-> 110000, output_price |-> 2500000]]
Gemini15ProEntry == [k |-> Gemini15Pro, v |-> [input_price |-> 220000, output_price |-> 5000000]]

\* The iteration orders of a set of entries
Orderings(S) ==
    {mp \in [1..Cardinality(S) -> S] : \A i, j \in 1..Cardinality(S) : i # j => mp[i] # mp[j]}

\* The pricing tables: "default" and any of the other entries, in any order
PricingTables ==
    UNION {Orderings({DefaultEntry} \cup S) :
           S \in SUBSET {Gemini25ProEntry, Gemini15Entry, Gemini15ProEntry}}

\* The model names asked for: "gemini-2.5-pro-002", "gemini-1.5-pro-002",
\* "gemini-1.5-pro", " gemini-1.5-pro ", "gemini-1.5-flash", "unknown",
\* "default", "defaults" and the empty name
ModelNames ==
    {Gemini25Pro \o Dash002, Gemini15Pro \o Dash002, Gemini15Pro,
     <<" ">> \o Gemini15Pro \o <<" ">>,
     Gemini15 \o <<"f", "l", "a", "s", "h">>,
     <<"u", "n", "k", "n", "o", "w", "n">>,
     DefaultKey, DefaultKey \o <<"s">>, << >>}

\* The environment: nothing about prices, the input price set, or its _FILE
\* variant present
Environments == {{}, {"PRICE_PER_MTOK_INPUT"}, {"PRICE_PER_MTOK_INPUT_FILE"}}

\* The settings under an environment: the input price read from it is 0.42
SettingsUnder(env) ==
    [PRICE_PER_MTOK_INPUT |-> IF "PRICE_PER_MTOK_INPUT" \in env THEN 420000
                              ELSE PRICE_PER_MTOK_INPUT,
     PRICE_PER_MTOK_OUTPUT |-> PRICE_PER_MTOK_OUTPUT,
     PRICE_PER_MTOK_INDEX |-> PRICE_PER_MTOK_INDEX]

\* The token counts priced
TokenCounts == {0, 1, 5, 7, 100}

\* The calls of the cost engine: a model name and token counts, under a pricing
\* table and an environment
Calls ==
    [fn : {"none"}, model : ModelNames, mp : PricingTables, env : Environments,
     prompt_tokens : TokenCounts, completion_tokens : TokenCounts]

\* A user without budget, and a call about to be made
CostInit ==
    /\ InitBut
    /\ limit = NoBudget
    /\ spend = 0
    /\ calc \in Calls

\* _resolve_model_rates(model)
Cost_ResolveModelRates ==
    /\ calc.fn = "none"
    /\ calc' = [fn |-> "_resolve_model_rates", model |-> calc.model, mp |-> calc.mp,
                env |-> calc.env,
                rates |-> ResolveModelRates(calc.model, calc.mp, SettingsUnder(calc.env),
                                            calc.env)]
    /\ UNCHANGED <<sem, gen, limit, spend, verdict, pipe, ingestVars>>

\* calc_query_cost(model, prompt_tokens, completion_tokens)
Cost_CalcQueryCost ==
    /\ calc.fn = "none"
    /\ LET rates == ResolveModelRates(calc.model, calc.mp, SettingsUnder(calc.env), calc.env)
       IN calc' = [calc EXCEPT !.fn = "calc_query_cost"]
                  @@ [rates |-> rates,
                      result |-> QueryCostResult(calc.prompt_tokens,
                                                 calc.completion_tokens, rates)]
    /\ UNCHANGED <<sem, gen, limit, spend, verdict, pipe, ingestVars>>

CostNext ==
    \/ Cost_ResolveModelRates
    \/ Cost_CalcQueryCost

CostSpec == CostInit /\ [][CostNext]_vars

\* The chat streams with a database whose statements may fail
ChatFaultNext ==
    \/ \E s \in Streams : Chat_Preflight(s)
    \/ \E s \in Streams : Stream_Acquire(s)
    \/ \E s \in Streams : Stream_AcquireTimeout(s)
    \/ \E s \in Streams : Stream_Attempt(s)
    \/ \E s \in Streams : Stream_Consume(s)
    \/ \E s \in Streams : Stream_After(s)
    \/ \E s \in Streams : Stream_LogCost(s)
    \/ \E s \in Streams : Stream_AfterLogFails(s)
    \/ \E s \in Streams : Stream_LogCostFails(s)

ChatFaultSpec == ChatInit /\ [][ChatFaultNext]_vars

\* The ingestion job with a database whose commits may fail
FaultNext ==
    \/ \E d \in DocIds, size \in DocSizes : Upload_Create(d, size)
    \/ \E d \in DocIds : Upload_Enqueue(d)
    \/ \E w \in Workers, d \in DocIds : RunIngestion_Start(w, d)
    \/ \E w \in Workers : RunIngestion_Upload(w)
    \/ \E w \in Workers : RunIngestion_Poll(w)
    \/ \E w \in Workers : RunIngestion_LogIndexCost(w)
    \/ \E w \in Workers : RunIngestion_Handler(w)
    \/ \E w \in Workers, d \in DocIds : RunIngestion_StartCommitFails(w, d)
    \/ \E w \in Workers : RunIngestion_UploadCommitFails(w)
    \/ \E w \in Workers : RunIngestion_PollCommitFails(w)
    \/ \E w \in Workers : RunIngestion_LogIndexCostFails(w)
    \/ \E w \in Workers : RunIngestion_HandlerCommitFails(w)
    \/ delete_store
    \/ \E d \in DocIds : restore_document(d)

FaultSpec == Init /\ [][FaultNext]_vars

\* ------------------------------------------- the job under a fair schedule
\* The worker process dies inside a run: no except clause and no finally clause
\* runs, the row and the temp file stay as the run left them
Worker_Crash(w) ==
    /\ job[w].pc \in {"upload", "poll", "polling", "cost", "handler"}
    /\ job' = [job EXCEPT ![w] = [Ended(@, "crashed") EXCEPT !.db_closed = 0]]
    /\ UNCHANGED chatVars
    /\ UNCHANGED <<docs, storeDeleted, now, ticks, tmpFile, queued, runs, uploadCalls,
                   remoteFiles, indexLogs, osr, uploading, faults, cleanup>>

\* The queue hands an enqueued job to a worker for the first time
Queue_Delivers(d) == runs[d] = 0 /\ \E w \in Workers : RunIngestion_Start(w, d)

\* op_status answers with the end of the operation: done, or its error
Operation_Answers(w) ==
    /\ job[w].pc \in {"poll", "polling"}
    /\ \E answer \in {"done", "error"} : PollIteration(w, answer, << >>, job[w])

\* The job, the clock, the two sweeps and a worker that may die.  The queue
\* delivers every job once, more often if it likes; the upload route, a worker
\* that is alive, the remote operation, the clock and the cron task go on.
LiveNext ==
    \/ Tick
    \/ \E d \in DocIds, size \in DocSizes : Upload_Create(d, size)
    \/ \E d \in DocIds : Upload_Enqueue(d)
    \/ \E w \in Workers, d \in DocIds : RunIngestion_Start(w, d)
    \/ \E w \in Workers : RunIngestion_Upload(w)
    \/ \E w \in Workers : RunIngestion_Poll(w)
    \/ \E w \in Workers : RunIngestion_LogIndexCost(w)
    \/ \E w \in Workers : RunIngestion_Handler(w)
    \/ \E w \in Workers : Worker_Crash(w)
    \/ reset_stuck_documents
    \/ \E ttl \in AdminTtls, u \in AdminUserIds : admin_reset_stuck(ttl, u)

LiveSpec ==
    /\ Init /\ [][LiveNext]_vars
    /\ WF_vars(Tick)
    /\ WF_vars(reset_stuck_documents)
    /\ \A d \in DocIds : WF_vars(Upload_Enqueue(d)) /\ WF_vars(Queue_Delivers(d))
    /\ \A w \in Workers :
          /\ WF_vars(RunIngestion_Upload(w))
          /\ WF_vars(Operation_Answers(w))
          /\ WF_vars(RunIngestion_LogIndexCost(w))
          /\ WF_vars(RunIngestion_Handler(w))

\* ------------------------------------- the job and the deletion of documents
\* The ingestion job, the route that soft-deletes a document and the background
\* task the route schedules
DeleteNext ==
    \/ \E d \in DocIds, size \in DocSizes : Upload_Create(d, size)
    \/ \E d \in DocIds : Upload_Enqueue(d)
    \/ \E w \in Workers, d \in DocIds : RunIngestion_Start(w, d)
    \/ \E w \in Workers : RunIngestion_Upload(w)
    \/ \E w \in Workers : RunIngestion_Poll(w)
    \/ \E w \in Workers : RunIngestion_LogIndexCost(w)
    \/ \E w \in Workers : RunIngestion_Handler(w)
    \/ \E d \in DocIds : delete_document(d)
    \/ \E d \in DocIds : DeleteRemoteDocument(d)

DeleteSpec == Init /\ [][DeleteNext]_vars

\* ------------------------------------------ every writer of the status
\* minutes of scripts.mark_stuck_documents_error (sys.argv[1], any int)
ScriptMinutes == {0, WATCHDOG_TTL_MINUTES}

\* The rows the script writes: doc.status = DocumentStatus.ERROR for the live
\* RUNNING rows created before the cutoff, whatever their store
MarkStuckRows(minutes) ==
    [d \in DocIds |->
        IF /\ docs[d].exists /\ docs[d].status = RUNNING
           /\ docs[d].created < now - TtlSeconds(minutes)
           /\ ~docs[d].deleted
        THEN [docs[d] EXCEPT !.status = ERROR, !.prev = docs[d].status, !.by = "mark_stuck"]
        ELSE docs[d]]

\* scripts/mark_stuck_documents_error.py: main
mark_stuck_documents_error(minutes) ==
    /\ docs' = MarkStuckRows(minutes)
    /\ UNCHANGED chatVars
    /\ UNCHANGED <<storeDeleted, now, ticks, tmpFile, queued, runs, job, uploadCalls,
                   remoteFiles, indexLogs, osr, uploading, faults, cleanup>>

\* Everything that writes the status of a document: the job, the two sweeps,
\* the upload route, the op-status route and the maintenance script
StatusNext ==
    \/ Tick
    \/ \E d \in DocIds, size \in DocSizes : Upload_Create(d, size)
    \/ \E d \in DocIds : Upload_Enqueue(d)
    \/ \E w \in Workers, d \in DocIds : RunIngestion_Start(w, d)
    \/ \E w \in Workers : RunIngestion_Upload(w)
    \/ \E w \in Workers : RunIngestion_Poll(w)
    \/ \E w \in Workers : RunIngestion_LogIndexCost(w)
    \/ \E w \in Workers : RunIngestion_Handler(w)
    \/ reset_stuck_documents
    \/ \E ttl \in AdminTtls, u \in AdminUserIds : admin_reset_stuck(ttl, u)
    \/ \E d \in DocIds : OpStatus_Read(d)
    \/ \E d \in DocIds : OpStatus_Write(d)
    \/ \E minutes \in ScriptMinutes : mark_stuck_documents_error(minutes)

StatusSpec == Init /\ [][StatusNext]_vars

\* ------------------------------------------------ a stream with its clock
\* STREAM_KEEPALIVE_SECS as configured, in tenths of a second: negative, 0, two
\* and three tenths
KeepaliveSettings == {-1, 0, 2, 3}

\* One attempt of a stream under any setting of the keepalive
KeepaliveInit ==
    /\ InitButPipe
    /\ limit = NoBudget
    /\ spend = 0
    /\ calc = NoCalc
    /\ \E secs \in KeepaliveSettings :
          pipe = [NewPipe EXCEPT !.secs = secs,
                                 !.keepalive_interval = KeepaliveInterval(secs)]

KeepaliveNext ==
    \/ StreamNext
    \/ Consumer_Empty

KeepaliveSpec == KeepaliveInit /\ [][KeepaliveNext]_vars

\* ---------------------------------------------------------------- claims
\* The precondition of a skipped run: the document and its store are live, the
\* operation handle is set and the status is RUNNING or DONE
HasLiveOperation(doc) ==
    /\ doc.exists /\ ~doc.deleted /\ ~storeDeleted
    /\ doc.op # NoId
    /\ doc.status \in {RUNNING, DONE}

\* C1: a run of run_ingestion_sync on a live document of a live store whose
\* operation handle is set and whose status is RUNNING or DONE ends without a
\* call of upload_file and writes nothing to the row but the heartbeat
\* timestamp: status, handle, file id and last_error stay as they were.
C1_SkipExistingOperation ==
    [][\A w \in Workers, d \in DocIds :
         (RunIngestion_Start(w, d) /\ HasLiveOperation(docs[d]))
         => /\ docs'[d] = [docs[d] EXCEPT !.ts = now]
            /\ uploadCalls' = uploadCalls
            /\ job'[w].pc = "ended" /\ ~job'[w].uploaded]_vars

\* C1 witness: a run has ended as a skip and the row holds the handle, the
\* status and the fresh heartbeat
C1_Witness ==
    \E w \in Workers :
        /\ job[w].pc = "ended" /\ job[w].outcome = "skip_existing_operation"
        /\ HasLiveOperation(docs[job[w].doc])
        /\ docs[job[w].doc].ts = now /\ now > 0
        /\ docs[job[w].doc].by # "job_start"

\* C2: when a run has uploaded a file and persisted its file id, and the poll
\* of the operation then fails for good (the operation reports an error, or the
\* poll times out), delete_document_from_store is called with that file id
\* before the run ends.
C2_RollbackOnPollFailure ==
    \A w \in Workers :
        (job[w].pc = "ended" /\ job[w].uploaded_file_id # NoId /\ job[w].pollFail # "none")
        => job[w].delArg = job[w].uploaded_file_id

\* The last status write of a row changed the status
StatusChanged(doc) == doc.exists /\ doc.prev # "NONE" /\ doc.prev # doc.status

EndsWithOneDone(g) ==
    /\ Len(g.frames) > 0
    /\ g.frames[Len(g.frames)] = DoneFrame
    /\ CountFrames(g, "[DONE]") = 1

\* A generator that ended on a failure path: anything but a clean completion
\* and a client that went away
FailurePath(g) == g.cause \notin {"none", "disconnect"}

\* An error frame is sent, and before the last frame
ErrorBeforeLast(g) == \E i \in 1..(Len(g.frames) - 1) : g.frames[i].type = "error"

\* C4: every run of the chat stream generator ends with the [DONE] frame, sent
\* exactly once and last, on every path; on every failure path an error frame
\* precedes it; and no exception leaves the generator.
C4_AlwaysDone ==
    \A s \in Streams :
        gen[s].pc = "closed"
        => /\ ~gen[s].raised
           /\ EndsWithOneDone(gen[s])
           /\ (FailurePath(gen[s]) => ErrorBeforeLast(gen[s]))

\* The completion tokens estimated for the first i text deltas of the upstream
RECURSIVE TokensUpTo(_, _)
TokensUpTo(seen, i) ==
    IF i = 0 THEN 0 ELSE TokensUpTo(seen, i - 1) + EstimateTokensFromText(seen[i])

\* With a budget established, the projected cost at the i-th text delta exceeds
\* the remaining headroom
BreachAt(g, i) ==
    /\ g.remaining_budget_usd # NoBudget
    /\ CalcQueryCost(prompt_tokens_est, TokensUpTo(g.seen, i)) > g.remaining_budget_usd

BudgetExceededFrame == ErrorFrame("budget_exceeded")

Holders == {s \in Streams : gen[s].sem_acquired /\ gen[s].pc # "closed"}

\* C6: under any interleaving of the streams, at most MAX_CONCURRENT_STREAMS of
\* them hold the semaphore; a stream that acquired it has released it exactly
\* once when its generator has ended, on any path, and not before; a stream
\* that timed out acquiring never releases it; and when all streams have ended
\* the semaphore is back at its initial value.
C6_SemaphoreBalanced ==
    /\ Cardinality(Holders) <= MAX_CONCURRENT_STREAMS
    /\ sem = MAX_CONCURRENT_STREAMS - Cardinality(Holders)
    /\ \A s \in Streams :
          /\ gen[s].released = IF gen[s].sem_acquired /\ gen[s].pc = "closed" THEN 1 ELSE 0
          /\ gen[s].cause = "capacity" => ~gen[s].sem_acquired /\ gen[s].released = 0
    /\ (\A s \in Streams : gen[s].pc = "closed") => sem = MAX_CONCURRENT_STREAMS

\* C6 witness: all streams have ended, one after timing out on the semaphore
\* while another, which left by an exception, held it
C6_Witness ==
    /\ \A s \in Streams : gen[s].pc = "closed"
    /\ \E s, t \in Streams :
          /\ gen[s].cause = "capacity"
          /\ gen[t].sem_acquired /\ gen[t].raised /\ gen[t].released = 1
    /\ sem = MAX_CONCURRENT_STREAMS

\* A run in which the upload, the operation-name check, the poll, a commit or
\* the cost logging failed
RunFailed(j) == j.exc # NoErr \/ j.pollFail # "none" \/ j.costFailed

\* No path of an application directory is left in the text, and it is capped
Sanitized(msg) ==
    /\ Len(msg) <= ERROR_MAX_LEN
    /\ \A i \in 1..Len(msg) : PathMatchEnd(msg, i) = 0

\* C7: run_ingestion_sync never raises to its caller: a run on an existing,
\* non-deleted document in which the upload, the missing-operation-handle check,
\* the poll, a database commit or the cost logging fails ends with the status
\* ERROR and a sanitized last_error committed to the row, and returns normally.
C7_NeverRaises ==
    [][\A w \in Workers :
         (job[w].pc # "ended" /\ job'[w].pc = "ended" /\ RunFailed(job'[w]))
         => /\ ~job'[w].raised
            /\ docs'[job'[w].doc].status = ERROR
            /\ docs'[job'[w].doc].err # NoErr
            /\ Sanitized(docs'[job'[w].doc].err)]_vars

\* A live RUNNING document of a live store
LiveRunning(doc) == doc.exists /\ doc.status = RUNNING /\ ~doc.deleted /\ ~storeDeleted

\* The status-changed timestamp, the created timestamp when it is absent
StatusChangedAt(doc) == IF doc.ts >= 0 THEN doc.ts ELSE doc.created

\* The sweep's row for the document is a reset one
WasReset(rows, d) == rows[d] # docs[d] /\ rows[d].op = NoId /\ rows[d].ts = now

\* C8 as stated: a sweep at time now, by the watchdog with WATCHDOG_TTL_MINUTES
\* or by the admin reset with ttl_minutes, resets a live RUNNING document of a
\* live store iff its status-changed timestamp is strictly earlier than now
\* minus the TTL. (The rows a sweep writes are a function of the state it runs
\* in, so the property is stated of every state a sweep can run in, the sweeps
\* that reset nothing included.)
C8_ResetIffStale ==
    \A d \in DocIds : LiveRunning(docs[d]) =>
        /\ WasReset(WatchdogRows, d)
              <=> StatusChangedAt(docs[d]) < now - 60 * WATCHDOG_TTL_MINUTES
        /\ \A ttl \in AdminTtls, u \in AdminUserIds :
              WasReset(AdminRows(ttl, u), d) <=> StatusChangedAt(docs[d]) < now - 60 * ttl

\* C8: a sweep at time now resets a live RUNNING document of a live store iff
\* its status-changed timestamp (the created timestamp when absent) is strictly
\* earlier than now minus the TTL and, for an admin reset that names a user_id,
\* the store belongs to that user: a document exactly at the boundary is not
\* reset; one second past it, it is.
C8_ResetIffStaleAndOwned ==
    \A d \in DocIds : LiveRunning(docs[d]) =>
        /\ WasReset(WatchdogRows, d)
              <=> StatusChangedAt(docs[d]) < now - 60 * WATCHDOG_TTL_MINUTES
        /\ \A ttl \in AdminTtls, u \in AdminUserIds :
              WasReset(AdminRows(ttl, u), d)
                 <=> /\ StatusChangedAt(docs[d]) < now - 60 * ttl
                     /\ (u # NoId => u = STORE_USER)
        /\ StatusChangedAt(docs[d]) = now - 60 * WATCHDOG_TTL_MINUTES
              => WatchdogRows[d] = docs[d] /\ AdminRows(WATCHDOG_TTL_MINUTES, NoId)[d] = docs[d]
        /\ StatusChangedAt(docs[d]) = now - 60 * WATCHDOG_TTL_MINUTES - 1
              => /\ WatchdogRows[d].status = ERROR
                 /\ AdminRows(WATCHDOG_TTL_MINUTES, NoId)[d].status = PENDING

\* C8 witness: the watchdog has reset a document at the instant one second
\* past the boundary (the clock is read at 0, at the TTL and one second later, so
\* the document was RUNNING since 0 and no sweep at the TTL reset it)
C8_Witness ==
    \E d \in DocIds :
        /\ docs[d].by = "watchdog" /\ docs[d].status = ERROR
        /\ docs[d].ts = 60 * WATCHDOG_TTL_MINUTES + 1 /\ now = docs[d].ts

\* C8 witness of the boundary: a live document RUNNING since exactly the TTL
C8_BoundaryWitness ==
    \E d \in DocIds :
        /\ LiveRunning(docs[d])
        /\ StatusChangedAt(docs[d]) = now - 60 * WATCHDOG_TTL_MINUTES

\* The documents a sweep with this cutoff leaves alone
NotSelectable(doc, cutoff) ==
    \/ ~doc.exists
    \/ doc.status # RUNNING
    \/ ~(StatusChangedAt(doc) < cutoff)
    \/ doc.deleted
    \/ storeDeleted

\* The sweep's row is the row before it with the status, a fresh
\* status-changed timestamp and no operation handle
ResetTo(row, doc, status) ==
    /\ row.status = status /\ row.ts = now /\ row.op = NoId
    /\ row.prev = doc.status
    /\ \A f \in {"exists", "fid", "err", "created", "deleted", "size"} : row[f] = doc[f]

\* C9: every document a sweep selects ends with status ERROR (watchdog) or
\* PENDING (admin reset), a refreshed status-changed timestamp and a null
\* operation handle; every document that is not RUNNING, not stale,
\* soft-deleted, or whose store is soft-deleted is left entirely unchanged.
C9_SweepFrame ==
    \A d \in DocIds :
        /\ IF NotSelectable(docs[d], now - 60 * WATCHDOG_TTL_MINUTES)
           THEN WatchdogRows[d] = docs[d]
           ELSE ResetTo(WatchdogRows[d], docs[d], ERROR)
        /\ \A ttl \in AdminTtls, u \in AdminUserIds :
              IF NotSelectable(docs[d], now - 60 * ttl)
              THEN AdminRows(ttl, u)[d] = docs[d]
              ELSE \/ AdminRows(ttl, u)[d] = docs[d] /\ u \notin {NoId, STORE_USER}
                   \/ ResetTo(AdminRows(ttl, u)[d], docs[d], PENDING)

\* C9 witness: the admin reset has taken a document whose upload was in flight
\* to PENDING and cleared the handle the job is still polling
C9_Witness ==
    \E d \in DocIds, w \in Workers :
        /\ docs[d].by = "admin_reset" /\ docs[d].status = PENDING
        /\ docs[d].op = NoId /\ docs[d].ts = now
        /\ job[w].doc = d /\ job[w].pc = "polling" /\ job[w].op_name # NoId

\* The retry loop resumes after the sleep that followed a retryable failure
RetryResumes(s) == gen[s].pc = "attempt" /\ gen[s].retry_count >= 1 /\ gen'[s] # gen[s]

\* The k-th retryable failure was followed by a sleep of 2^k seconds, the last
\* allowed one by none
BackedOff(g) ==
    /\ Len(g.slept) = Min(g.retry_count, GEMINI_STREAM_RETRY_ATTEMPTS)
    /\ \A k \in 1..Len(g.slept) : g.slept[k] = 2^k

\* ask_stream was invoked once, and once more after each sleep at most
BoundedAttempts(g) ==
    /\ g.asked <= GEMINI_STREAM_RETRY_ATTEMPTS + 1
    /\ g.asked <= Len(g.slept) + 1

\* The stream that ran out of attempts invoked ask_stream
\* GEMINI_STREAM_RETRY_ATTEMPTS + 1 times, sent one error frame,
\* upstream_unavailable, and [DONE] right after it, last
ExhaustedCleanly(g) ==
    (g.cause = "retries_exhausted" /\ g.pc = "closed")
    => /\ g.asked = GEMINI_STREAM_RETRY_ATTEMPTS + 1
       /\ CountFrames(g, "error") = 1
       /\ CountFrames(g, "[DONE]") = 1
       /\ g.frames[Len(g.frames) - 1] = ErrorFrame("upstream_unavailable")
       /\ g.frames[Len(g.frames)] = DoneFrame
       /\ ~g.raised

LastTwo(g) == SubSeq(g.frames, Len(g.frames) - 1, Len(g.frames))

\* C11: a stream whose producer thread could not enqueue a chunk within the put
\* timeout ends with an error frame of code stream_backpressure (not
\* unexpected_error, not upstream_unavailable) followed by [DONE].
C11_BackpressureDistinct ==
    \A s \in Streams :
        (gen[s].pc = "closed" /\ gen[s].cause = "error_backpressure")
        => /\ Len(gen[s].frames) >= 2
           /\ LastTwo(gen[s])[1].type = "error"
           /\ LastTwo(gen[s])[1].code = "stream_backpressure"
           /\ LastTwo(gen[s])[2] = DoneFrame

\* The causes of a failed stream other than a client disconnect
FailureCauses == {"capacity", "retries_exhausted", "error_other", "error_backpressure", "budget"}

\* A zero-cost QueryLog row tagged with the error code of the generator
HasFailureRow(g) ==
    \E i \in 1..Len(g.rows) :
        g.rows[i].cost_usd = 0 /\ g.rows[i].error_code = g.last_error_code

\* C12: every stream that ends on a failure path other than a client
\* disconnect (capacity exceeded, retries exhausted, unexpected error,
\* backpressure, budget exceeded) has inserted a zero-cost QueryLog row tagged
\* with its error code when it has sent [DONE]; a stream ended by a client
\* disconnect has inserted no row.
C12_FailureRowLogged ==
    \A s \in Streams :
        gen[s].pc = "closed"
        => /\ gen[s].cause \in FailureCauses
              => /\ HasFailureRow(gen[s])
                 /\ gen[s].frames[Len(gen[s].frames)] = DoneFrame
           /\ gen[s].cause = "disconnect" => gen[s].rows = << >>

NeverStreamed(g) ==
    /\ g.frames = << >> /\ g.asked = 0
    /\ ~g.sem_acquired /\ g.released = 0
    /\ g.rows = << >> /\ ~g.saved

\* C14: a chat request made when the month-to-date spend has reached the
\* monthly limit is rejected before the streaming response exists, with 402
\* (a request that names a store the caller may not use is turned away with its
\* own status by the check before); a rejected request has sent no frame, never
\* called ask_stream, never acquired the semaphore and wrote no QueryLog row,
\* and stays so.
C14_ExhaustedRejectedPreflight ==
    [][\A s \in Streams :
         /\ (gen[s].pc = "request" /\ gen'[s] # gen[s] /\ limit # NoBudget /\ spend >= limit)
            => /\ gen'[s].pc = "rejected"
               /\ gen'[s].store = "owned"
                  => (gen'[s].http = 402 /\ gen'[s].detail = "Monthly budget exhausted")
         /\ gen'[s].pc = "rejected" => NeverStreamed(gen'[s])
         /\ gen[s].pc = "rejected" => gen'[s] = gen[s]]_vars

\* C14 witness: with the spend at the limit, a request for the caller's own
\* stores was answered 402
C14_Witness ==
    /\ limit # NoBudget /\ spend >= limit
    /\ \E s \in Streams :
          gen[s].pc = "rejected" /\ gen[s].store = "owned" /\ gen[s].http = 402

\* The frames a generator sent in the last step
SentBy(g, h) == SubSeq(h.frames, Len(g.frames) + 1, Len(h.frames))

C15_FinishWitness ==
    \E s \in Streams :
        /\ gen[s].pc = "closed" /\ CountFrames(gen[s], "finish") = 1
        /\ gen[s].usage = NoUsageMetadata /\ gen[s].saved
        /\ limit # NoBudget

\* C16: a stream that cannot acquire the stream semaphore within the timeout
\* sends exactly the stream_capacity_exceeded error frame and [DONE] and ends,
\* with no start or text frame and no call of ask_stream, holding no permit; a
\* stream waiting for the semaphore can always take a step (it acquires or it
\* times out), so the wait never blocks.
C16_CapacityExceeded ==
    \A s \in Streams :
        /\ gen[s].cause = "capacity"
           => /\ gen[s].pc = "closed"
              /\ gen[s].frames = <<ErrorFrame("stream_capacity_exceeded"), DoneFrame>>
              /\ gen[s].asked = 0
              /\ ~gen[s].sem_acquired /\ gen[s].released = 0
              /\ \E t \in Streams \ {s} : gen[t].sem_acquired
        /\ gen[s].pc = "new" => ENABLED (Stream_Acquire(s) \/ Stream_AcquireTimeout(s))

\* C16 witness: a stream was turned away while the other held the only permit
C16_Witness ==
    \E s \in Streams :
        /\ gen[s].pc = "closed" /\ gen[s].cause = "capacity"
        /\ sem = 0

\* The string sub occurs in the string s
Contains(s, sub) ==
    \E i \in 1..(Len(s) - Len(sub) + 1) : SubSeq(s, i, i + Len(sub) - 1) = sub

\* A worker is inside the poll loop
Polling(w) == job[w].pc \in {"poll", "polling"}

\* The time a worker has spent in the poll loop is past the configured ceiling
PastCeiling(w) == job[w].elapsed > GEMINI_INGESTION_TIMEOUT_S * TimeUnit

\* C17: the poll loop ends whatever op_status answers, also when it answers
\* done=false without error every time: a worker inside the loop leaves it; the
\* loop calls op_status only while the elapsed time is within
\* GEMINI_INGESTION_TIMEOUT_S, and once the elapsed time exceeds it the loop
\* stops without another call and the document is committed with status ERROR
\* and a last_error containing "timed out".
C17_PollTimesOut ==
    /\ [][\A w \in Workers :
            /\ (Polling(w) /\ job'[w] # job[w] /\ PastCeiling(w))
               => /\ job'[w].pc = "ended" /\ job'[w].pollFail = "timeout"
                  /\ docs'[job[w].doc].status = ERROR
                  /\ Contains(docs'[job[w].doc].err, MsgTimedOut)
            /\ job'[w].polls > job[w].polls => ~PastCeiling(w)
            /\ (Polling(w) /\ job'[w].pollFail = "timeout") => PastCeiling(w)]_vars
    /\ \A w \in Workers : Polling(w) ~> ~Polling(w)

\* C17 witness: after polls that all found the operation pending and sleeps
\* without jitter (2, 3, 4.5, 6.75, 10.125, 15.1875, then 20 seconds seven
\* times), the job has ended on the timeout and the row says so
C17_Witness ==
    \E w \in Workers :
        /\ job[w].pc = "ended" /\ job[w].pollFail = "timeout"
        /\ docs[job[w].doc].status = ERROR
        /\ Contains(docs[job[w].doc].err, MsgTimedOut)
        /\ Contains(docs[job[w].doc].err, <<"1","8","1",".","6","s">>)

\* C18: a run that called upload_file, got an operation handle (and a file id)
\* and saw the poll answer done without error ends with the document DONE,
\* last_error null, the handle and the file id on the row, and exactly one more
\* QueryLog row of model INDEX, for the store's owner, with prompt tokens =
\* size_bytes div 4 (250 for 1000 bytes) and a cost above 0.
C18_IngestionSucceeds ==
    [][\A w \in Workers :
         (job[w].pc = "cost" /\ job[w].uploaded /\ job'[w].pc = "ended")
         => LET j == job[w]
                d == j.doc
                row == indexLogs'[d][Len(indexLogs'[d])]
            IN /\ Len(indexLogs'[d]) = Len(indexLogs[d]) + 1
               /\ job'[w].outcome = "done"
               /\ docs'[d].status = DONE /\ docs'[d].err = NoErr
               /\ j.op_name # NoId /\ docs'[d].op = j.op_name
               /\ j.uploaded_file_id # NoId => docs'[d].fid = j.uploaded_file_id
               /\ indexLogs'[d] = Append(indexLogs[d], row)
               /\ row.model = "INDEX" /\ row.user_id = STORE_USER
               /\ row.prompt_tokens = docs[d].size \div 4
               /\ docs[d].size = 1000 => row.prompt_tokens = 250
               /\ row.cost_usd > 0
               /\ spend' = spend + row.cost_usd]_vars

\* C18 witness: the first run for a document of 1000 bytes has ended: DONE, with
\* handle and file id, and one INDEX row of 250 tokens
C18_Witness ==
    \E w \in Workers, d \in DocIds :
        /\ job[w].pc = "ended" /\ job[w].outcome = "done" /\ job[w].doc = d
        /\ job[w].uploaded /\ job[w].uploaded_file_id # NoId
        /\ runs[d] = 1
        /\ docs[d].status = DONE /\ docs[d].err = NoErr
        /\ docs[d].op # NoId /\ docs[d].fid = job[w].uploaded_file_id
        /\ Len(indexLogs[d]) = 1 /\ indexLogs[d][1].prompt_tokens = 250

\* A store id that is not an undeleted store of the caller
ForeignKinds == {"other_tenant", "soft_deleted", "missing"}

\* What the caller of a chat request sees: the status, the detail, the frames
Observation(g) == <<g.http, g.detail, g.frames>>

\* C19: a chat request naming a store id that is not an undeleted store of the
\* caller is answered 404 before the streaming response exists (no frame, no
\* call of ask_stream), and two requests that differ only in whether that id is
\* another tenant's store, a soft-deleted store or no store at all are answered
\* alike.
C19_StoreNotFoundAlike ==
    /\ \A s \in Streams :
          (gen[s].pc # "request" /\ gen[s].store \in ForeignKinds)
          => /\ gen[s].pc = "rejected"
             /\ gen[s].http = 404
             /\ NeverStreamed(gen[s])
    /\ \A s, t \in Streams :
          (/\ gen[s].pc # "request" /\ gen[s].store \in ForeignKinds
           /\ gen[t].pc # "request" /\ gen[t].store \in ForeignKinds)
          => Observation(gen[s]) = Observation(gen[t])

\* C19 witness: one request named another tenant's store and one a store id
\* that does not exist, and both were answered
C19_Witness ==
    \E s, t \in Streams :
        /\ gen[s].pc = "rejected" /\ gen[s].store = "other_tenant"
        /\ gen[t].pc = "rejected" /\ gen[t].store = "missing"
        /\ gen[s].http = 404

\* What a run of the generator was given, the text of the upstream exception
\* left out: the chunks, the retryable failures, the headroom, the usage
InputsBut(g) ==
    <<g.store, g.remaining_budget_usd, g.seen, g.retry_count, g.final_resp, g.cause>>

\* The error frames of a generator
ErrorFrames(g) == SelectSeq(g.frames, LAMBDA f : f.type = "error")

C21_UploadHoldRejects ==
    (/\ verdict.site = "upload" /\ verdict.limit # NoBudget
     /\ verdict.cost > verdict.limit - verdict.spend - BUDGET_HOLD_USD)
    => verdict.rejected

\* The cost of a part, stated without the rounding's code: nothing for nothing,
\* one micro-USD for anything below half of one, else the nearest whole micro-USD
\* with a tie going up
RoundedHalfUp(tokens, price, cost) ==
    LET n == tokens * price
    IN IF n = 0 THEN cost = 0
       ELSE IF 2 * n < MTOK THEN cost = 1
       ELSE 2 * cost * MTOK - MTOK <= 2 * n /\ 2 * n < 2 * cost * MTOK + MTOK

\* C22: at any non-negative token counts and positive prices calc_query_cost
\* gives each part as tokens / 1,000,000 x price rounded half-up to a micro-USD,
\* a positive unrounded cost being at least one micro-USD and no tokens costing
\* nothing, and the total is the sum of the two rounded parts.
C22_QueryCostRounded ==
    calc.fn = "calc_query_cost" =>
        /\ RoundedHalfUp(calc.prompt_tokens, calc.rates["input_price"],
                         calc.result.prompt_cost_usd)
        /\ RoundedHalfUp(calc.completion_tokens, calc.rates["output_price"],
                         calc.result.completion_cost_usd)
        /\ calc.result.total_cost_usd
             = calc.result.prompt_cost_usd + calc.result.completion_cost_usd

\* One prompt token at 0.11 USD costs one micro-USD although it rounds to none,
\* and one completion token at 2.50 USD, a tie at 2.5 micro-USD, costs three
C22_Witness ==
    /\ calc.fn = "calc_query_cost"
    /\ calc.prompt_tokens = 1 /\ calc.rates["input_price"] = 110000
    /\ calc.result.prompt_cost_usd = 1
    /\ calc.completion_tokens = 1 /\ calc.rates["output_price"] = 2500000
    /\ calc.result.completion_cost_usd = 3
    /\ calc.result.total_cost_usd = 4

\* The key the rates are said to come from: the name itself when it is a key,
\* else the longest key other than "default" that is a prefix of the name, else
\* "default"; a function of the set of keys, whatever their order
ClaimedKey(model, mp) ==
    LET name == Strip(model)
        P == {k \in Keys(mp) \ {DefaultKey} : StartsWith(name, k)}
    IN IF name \in Keys(mp) THEN name
       ELSE IF P # {} THEN CHOOSE k \in P : \A j \in P : Len(j) <= Len(k)
       ELSE DefaultKey

\* Some key of the table is the name or a prefix of it
SomeKeyMatches(model, mp) ==
    \/ Strip(model) \in Keys(mp)
    \/ \E k \in Keys(mp) \ {DefaultKey} : StartsWith(Strip(model), k)

\* The input and output prices of the result are those of the entry
TakenFrom(rates, entry) ==
    /\ "input_price" \in DOMAIN entry /\ rates["input_price"] = entry["input_price"]
    /\ "output_price" \in DOMAIN entry /\ rates["output_price"] = entry["output_price"]

\* The two resolutions the scenarios name
ScenariosResolve ==
    /\ (calc.model = Gemini25Pro \o Dash002 /\ Gemini25Pro \in Keys(calc.mp))
        => calc.rates["input_price"] = 1250000
    /\ (calc.model = Gemini15Pro \o Dash002 /\ {Gemini15, Gemini15Pro} \subseteq Keys(calc.mp))
        => calc.rates["input_price"] = 220000

InFlight(v, d) == job[v].doc = d /\ job[v].pc \notin {"idle", "ended"}
InFlightAfter(v, d) == job'[v].doc = d /\ job'[v].pc \notin {"idle", "ended"}

\* C24: of the deliveries of a job that overlap, at most one moves the document
\* to RUNNING and calls upload_file: a delivery that reads the row while another
\* worker's run on the document is in flight returns at a guard, without a call
\* of upload_file and without changing the status, and no two runs on a
\* document are ever in flight together.
C24_OneWorkerUploads ==
    [][/\ \A w \in Workers, d \in DocIds :
            (RunIngestion_Start(w, d) /\ \E v \in Workers \ {w} : InFlight(v, d))
            => /\ job'[w].pc = "ended"
               /\ job'[w].outcome \in {"skip_already_running", "skip_existing_operation"}
               /\ ~job'[w].uploaded
               /\ uploadCalls' = uploadCalls
               /\ docs'[d].status = docs[d].status
       /\ \A d \in DocIds :
            Cardinality({v \in Workers : InFlightAfter(v, d)}) <= 1]_vars

\* A delivery has returned at the RUNNING guard while the worker that moved the
\* PENDING document to RUNNING has not called upload_file yet
C24_Witness ==
    \E w, v \in Workers :
        /\ w # v
        /\ job[w].pc = "ended" /\ job[w].outcome = "skip_already_running"
        /\ job[v].pc = "upload" /\ job[v].doc = job[w].doc /\ job[v].vop = NoId
        /\ docs[job[v].doc].status = RUNNING /\ docs[job[v].doc].prev = PENDING
        /\ uploadCalls[job[v].doc] = 0

\* C25: once the compensating delete of the failure handler has removed a
\* document's uploaded file, no run marks the document DONE without a new
\* upload: a DONE document has a remote file left (of the routes only the job's
\* rollback removes remote files here).
C25_NoDoneAfterRollback ==
    \A d \in DocIds :
        (docs[d].exists /\ docs[d].status = DONE /\ docs[d].by = "job_poll")
        => remoteFiles[d] # {}

\* C26: a delivery that returns at a guard never removes the local temp file
\* before the worker that moved the document to RUNNING has finished its call
\* of upload_file: a run about to upload finds the file present.
C26_UploadFindsFile ==
    \A w \in Workers :
        (job[w].pc = "upload" /\ job[w].vop = NoId) => tmpFile[job[w].doc]

\* upload_file is called only when the row has no operation handle
UploadsOnlyWithoutHandle(d) == uploadCalls'[d] > uploadCalls[d] => docs[d].op = NoId

\* A live PENDING or ERROR document with a handle is moved to RUNNING, and the
\* upload step of a run whose row has a handle polls that handle without a call
PollsExistingHandle(w, d) ==
    /\ (/\ RunIngestion_Start(w, d)
        /\ docs[d].exists /\ ~docs[d].deleted /\ ~storeDeleted
        /\ docs[d].status \in {PENDING, ERROR} /\ docs[d].op # NoId)
       => docs'[d].status = RUNNING /\ job'[w].pc = "upload"
    /\ (RunIngestion_Upload(w) /\ job[w].doc = d /\ docs[d].op # NoId)
       => /\ job'[w].pc = "poll" /\ job'[w].op_name = docs[d].op
          /\ uploadCalls' = uploadCalls

\* The remote files the calls of upload_file have created for the document:
\* those that exist and those a run learned the id of (and may have deleted)
FilesUploadedAfter(d) ==
    remoteFiles'[d] \cup {job'[w].uploaded_file_id :
                            w \in {v \in Workers : job'[v].doc = d
                                                    /\ job'[v].uploaded_file_id # NoId}}

C28_CostFailureHarmless ==
    \A w \in Workers :
        (job[w].costFailed /\ job[w].pc = "ended")
        => /\ job[w].outcome = "done"
           /\ job[w].delArg = NoId
           /\ ~job[w].raised

\* C29: when the client disconnects, the consumer sets the stop flag and sends
\* neither an error frame nor another text-delta, and the producer thread then
\* terminates: it is never left blocked on a put into the bounded queue.
C29_DisconnectStopsProducer ==
    /\ [](pipe.cause = "disconnect"
          => /\ pipe.stop_event
             /\ ~pipe.error_sent
             /\ pipe.deltas = pipe.deltas_at_disconnect)
    /\ (pipe.cause = "disconnect") ~> (pipe.thread = "terminated")

C31_RetryRepeatsNothing ==
    [][\A s \in Streams :
         (gen[s].pc = "attempt" /\ gen'[s].pc = "consume" /\ gen[s].retry_count > 0)
         => /\ CountFrames(gen[s], "text-delta") = 0
            /\ gen[s].text_parts = 0
            /\ gen[s].completion_tokens_used = 0]_vars

\* C32: inside the poll loop an exception from op_status neither ends the loop
\* nor fails the job: every step of a worker inside the loop either sleeps the
\* backoff plus a jitter of 0 to 1.5 seconds, raises the backoff by half up to
\* 20 seconds and stays in the loop with the row untouched, or ends the loop
\* with success, or ends it with a failure that is the operation's error field
\* or the elapsed time past the ceiling, never an exception of op_status.
C32_PollSurvivesExceptions ==
    [][\A w \in Workers :
         (job[w].pc \in {"poll", "polling"} /\ job'[w] # job[w])
         => LET j == job[w]
                d == j.doc
            IN \/ /\ job'[w].pc = "polling"
                  /\ job'[w].polls = j.polls + 1
                  /\ job'[w].elapsed - j.elapsed - j.wait >= 0
                  /\ 2 * (job'[w].elapsed - j.elapsed - j.wait) <= 3 * TimeUnit
                  /\ job'[w].wait = Min((3 * j.wait) \div 2, WAIT_MAX)
                  /\ docs'[d] = docs[d]
               \/ /\ job'[w].pc = "cost"
                  /\ ~PastCeiling(w)
                  /\ docs'[d].status = DONE
               \/ /\ job'[w].pc = "ended"
                  /\ docs'[d].status = ERROR
                  /\ \/ job'[w].pollFail = "error" /\ ~PastCeiling(w)
                     \/ job'[w].pollFail = "timeout" /\ PastCeiling(w)]_vars

\* C32 witness: op_status raised, the loop slept and polled again, and a later
\* poll found the operation done: the document is DONE
C32_Witness ==
    \E w \in Workers :
        /\ job[w].pc = "cost" /\ job[w].op_status_raised
        /\ job[w].polls >= 2 /\ job[w].elapsed > 0
        /\ docs[job[w].doc].status = DONE

\* C33: whenever upload_file returned a file id and the upload step committed,
\* the file id recorded on the document is the one returned, also when the row
\* carried a file id of an earlier upload whose handle a sweep had cleared.
C33_RecordsReturnedFileId ==
    [][\A w \in Workers :
         (job[w].pc = "upload" /\ job'[w].pc = "poll" /\ job'[w].result_file_id # NoId)
         => docs'[job[w].doc].fid = job'[w].result_file_id]_vars

\* A RUNNING row written so late that the clock of the model ends before the
\* watchdog's TTL has passed for it
BeyondClock(doc) ==
    /\ doc.status = RUNNING
    /\ Coalesce(doc.ts, doc.created) >= Instant(MaxTicks) - TtlSeconds(WATCHDOG_TTL_MINUTES)

CleanupFinished(d) == cleanup[d] \in {"skipped_no_file_id", "deleted"}

\* C35: when a document is soft-deleted while its job is in flight, then once the
\* job and the cleanup task have both finished the file the row names does not
\* exist remotely any more, and no step of a job changes the status of a
\* deleted document; a job that starts on a deleted document ends at once, with no
\* remote call and no change of the row.
C35_DeleteWinsOverJob ==
    /\ [](\A d \in DocIds :
            (docs[d].deleted /\ CleanupFinished(d) /\ ~\E w \in Workers : InFlight(w, d))
            => docs[d].fid \notin remoteFiles[d])
    /\ [][\A d \in DocIds :
            (docs[d].deleted /\ job' # job) => docs'[d].status = docs[d].status]_vars
    /\ [][\A w \in Workers, d \in DocIds :
            (docs[d].deleted /\ runs'[d] = runs[d] + 1 /\ job'[w] # job[w])
            => /\ job'[w].pc = "ended" /\ job'[w].outcome = "skip_deleted"
               /\ docs' = docs /\ remoteFiles' = remoteFiles
               /\ uploadCalls' = uploadCalls]_vars

\* The month-to-date spend the pre-check of a stream saw, given the headroom it
\* left to the stream
SpendAtPrecheck(g) == limit - BUDGET_HOLD_USD - g.remaining_budget_usd

ExitPaths == {"skip_deleted", "store_missing", "already_done",
              "skip_existing_operation", "skip_already_running",
              "done", "poll_failed", "handled", "raised"}

C38_StepsInOrder ==
    [][\A w \in Workers :
         LET d == job[w].doc
         IN /\ (job'[w] # job[w] /\ d \in DocIds /\ uploadCalls'[d] = uploadCalls[d] + 1)
               => /\ job[w].pc = "upload"
                  /\ docs[d].status = RUNNING
            /\ (job[w].pc = "upload" /\ job'[w].pc = "poll" /\ job'[w].uploaded)
               => /\ uploadCalls'[d] = uploadCalls[d] + 1
                  /\ docs'[d].op = job'[w].op_name /\ job'[w].op_name # NoId
                  /\ job'[w].polls = 0
            /\ (job'[w] # job[w] /\ d \in DocIds /\ docs'[d].by = "job_poll"
                  /\ docs'[d] # docs[d])
               => /\ job[w].pc \in {"poll", "polling"}
                  /\ job[w].op_name # NoId
                  /\ docs'[d].status \in {DONE, ERROR}]_vars

\* C39: every write that changes the status of a document, whoever makes it,
\* sets the status-changed timestamp to the time of the write.
C39_StatusWriteStampsTime ==
    [][\A d \in DocIds :
         (docs'[d].exists /\ docs'[d].status # docs[d].status) => docs'[d].ts = now']_vars

====
